---- MODULE Spec2Model ----
(***************************************************************************)
(* WayLog: background synchronisation of AI chat sessions into markdown    *)
(* artifacts under <workspaceRoot>/.waylog/history.                        *)
(*                                                                         *)
(* Text is a sequence of tokens.  The tokens "\n" and "-" are the single   *)
(* characters newline and hyphen; every other token is a run of characters *)
(* holding neither, so the separator pattern /\n---\n/ is decided by the   *)
(* tokens alone.  Times are epoch milliseconds.                            *)
(***************************************************************************)
EXTENDS Integers, Sequences, FiniteSets, TLC

VARIABLES
    now,         \* Date.now()
    syncInterval,\* AutoSaveService.syncInterval: "armed" or "null"
    nextFire,    \* time at which the armed interval timer fires next
    store,       \* the sources' own storage: session id -> raw record
    files,       \* <root>/.waylog/history: filename -> file text
    syncState,   \* context.workspaceState 'waylog.sync.<id>' keys
    tick,        \* the in-flight invocations of syncAllExportedSessions
    edits,       \* number of changes made to the sources so far
    last,        \* history: the outcome of the latest syncSession call
    touched,     \* history: <<session id, filename, result>> per artifact checked
    quiet,       \* history: invocations started since a reader last answered anew
    overlapped,  \* history: an invocation started while another was in flight
    timers,      \* number of interval timers the runtime holds for the service
    stops,       \* number of timers stop() has cleared so far
    autoSave,    \* the waylog.autoSave setting
    input,       \* the arguments of a function applied on its own
    output       \* its result

vars == <<now, syncInterval, nextFire, store, files, syncState, tick, edits,
          last, touched, quiet, overlapped, timers, stops, autoSave, input, output>>

service == <<now, syncInterval, nextFire, store, files, syncState, tick, edits,
             last, touched, quiet, overlapped, timers, stops, autoSave>>

----------------------------------------------------------------------------
\* Bounds of the model

MaxIntervals == 1
MaxEdits == 1
MaxInFlight == 2

SYNC_INTERVAL_MS == 60000
TitleLimit == 50

NL == "\n"
HY == "-"

----------------------------------------------------------------------------
\* Characters

Letters == {"a", "b", "c", "A"}

IsLetterOrDigit(c) == c \in Letters

Lower(c) == IF c = "A" THEN "a" ELSE c

IsSpace(c) == c \in {NL, " "}

Min(a, b) == IF a < b THEN a ELSE b

Slice(s, from, to) == SubSeq(s, from + 1, Min(to, Len(s)))

MapSeq(s, F(_)) == [i \in 1..Len(s) |-> F(s[i])]

RECURSIVE TrimLeft(_)
TrimLeft(s) == IF s # <<>> /\ IsSpace(Head(s)) THEN TrimLeft(Tail(s)) ELSE s

RECURSIVE TrimRight(_)
TrimRight(s) ==
    IF s # <<>> /\ IsSpace(s[Len(s)]) THEN TrimRight(SubSeq(s, 1, Len(s) - 1)) ELSE s

Trim(s) == TrimRight(TrimLeft(s))

----------------------------------------------------------------------------
\* waylog-index: filenames and the block count of an artifact

\* text.replace(/-+/g, '-')
RECURSIVE CollapseHyphens(_)
CollapseHyphens(s) ==
    IF Len(s) < 2 THEN s
    ELSE IF s[1] = HY /\ s[2] = HY THEN CollapseHyphens(Tail(s))
    ELSE <<s[1]>> \o CollapseHyphens(Tail(s))

RECURSIVE TrimHyphensLeft(_)
TrimHyphensLeft(s) == IF s # <<>> /\ Head(s) = HY THEN TrimHyphensLeft(Tail(s)) ELSE s

RECURSIVE TrimHyphensRight(_)
TrimHyphensRight(s) ==
    IF s # <<>> /\ s[Len(s)] = HY
    THEN TrimHyphensRight(SubSeq(s, 1, Len(s) - 1)) ELSE s

\* the slug cut to 50 characters after cleaning instead of before
slugifyCutLast(text) ==
    LET slug == MapSeq(text, LAMBDA c : IF IsLetterOrDigit(c) THEN Lower(c) ELSE HY)
        cleanSlug == Slice(TrimHyphensRight(TrimHyphensLeft(CollapseHyphens(slug))),
                           0, TitleLimit)
    IN  IF cleanSlug = <<>> THEN <<"new", HY, "chat">> ELSE cleanSlug

slugify(text) ==
    LET truncated == Slice(text, 0, TitleLimit)
        slug == MapSeq(truncated, LAMBDA c : IF IsLetterOrDigit(c) THEN Lower(c) ELSE HY)
        cleanSlug == TrimHyphensRight(TrimHyphensLeft(CollapseHyphens(slug)))
    IN  IF cleanSlug = <<>> THEN <<"new", HY, "chat">> ELSE cleanSlug

\* the title cut to 50 characters, no character replaced
SanitizeTitleCutOnly(title) == Slice(title, 0, TitleLimit)

\* title.replace(/[^a-zA-Z0-9_\u4e00-\u9fa5]/g, '_').slice(0, 50)
SanitizeTitle(title) ==
    Slice(MapSeq(title, LAMBDA c : IF IsLetterOrDigit(c) \/ c = "_" THEN c ELSE "_"),
          0, TitleLimit)

FirstUser(messages) ==
    IF \E i \in 1..Len(messages) : messages[i].role = "user"
    THEN LET i == CHOOSE j \in 1..Len(messages) :
                      /\ messages[j].role = "user"
                      /\ \A k \in 1..(j - 1) : messages[k].role # "user"
         IN  <<messages[i]>>
    ELSE <<>>

\* YYYY-MM-DD_HH-MM of a time is its whole minute, YYYY-MM-DD_HH-MM-SS its
\* whole second.
MinuteStamp(ts) == "m" \o ToString(ts \div 60000)
SecondStamp(ts) == "s" \o ToString(ts \div 1000)

generateFilenameUsingLastUpdated(session) ==
    <<MinuteStamp(session.lastUpdatedAt), "Z", HY>>
        \o SanitizeTitle(session.title) \o <<".md">>

SourceLower(source) == IF source = "Claude" THEN "claude" ELSE source

generateFilename(session) ==
    IF SourceLower(session.source) = "claude"
    THEN LET firstUserMessage == FirstUser(session.messages)
             slug == IF firstUserMessage # <<>>
                     THEN slugify(firstUserMessage[1].content)
                     ELSE IF session.id # "" THEN <<session.id>>
                          ELSE <<"new", HY, "chat">>
         IN  <<SecondStamp(session.timestamp), "Z", HY, "claude", HY>>
                 \o slug \o <<".md">>
    ELSE <<MinuteStamp(session.timestamp), "Z", HY>>
             \o SanitizeTitle(session.title) \o <<".md">>

Separator == <<NL, HY, HY, HY, NL>>

\* content.match(/\n---\n/g): the matches, left to right, never overlapping
RECURSIVE CountFrom(_, _)
CountFrom(text, i) ==
    IF i + 4 > Len(text) THEN 0
    ELSE IF SubSeq(text, i, i + 4) = Separator THEN 1 + CountFrom(text, i + 5)
    ELSE CountFrom(text, i + 1)

\* the pattern /\n---\n\n/ instead: the last block's separator is not counted
RECURSIVE CountBlankLineFrom(_, _)
CountBlankLineFrom(text, i) ==
    IF i + 5 > Len(text) THEN 0
    ELSE IF SubSeq(text, i, i + 5) = Separator \o <<NL>>
    THEN 1 + CountBlankLineFrom(text, i + 6)
    ELSE CountBlankLineFrom(text, i + 1)

getFileMessageCountBlankLine(text) == CountBlankLineFrom(text, 1)

getFileMessageCount(text) == CountFrom(text, 1)

----------------------------------------------------------------------------
\* session-utils: rendering

RoleName(msg, source) == IF msg.role = "user" THEN "User" ELSE source

\* `\n${headerText}\n\n${msg.content}\n` + `\n---\n`
FormatBlock(msg, source) ==
    <<NL, "**" \o RoleName(msg, source) \o "**", NL, NL>> \o msg.content \o <<NL>>
        \o Separator

RECURSIVE JoinBlocks(_, _)
JoinBlocks(messages, source) ==
    IF messages = <<>> THEN <<>>
    ELSE IF Len(messages) = 1 THEN FormatBlock(messages[1], source)
    ELSE FormatBlock(messages[1], source) \o <<NL>> \o JoinBlocks(Tail(messages), source)

\* formatMessages called without its second argument: 'Assistant'
formatMessagesDefaultName(messages, sourceName) == JoinBlocks(messages, "Assistant")

formatMessages(messages, sourceName) == JoinBlocks(messages, sourceName)

ExportDate(time) == "t" \o ToString(time \div 1000)

Header(session, time) ==
    <<"# ">> \o session.title
        \o <<NL, "_Exported on ", ExportDate(time), " from ", session.source,
             " via WayLog_", NL, NL>>

formatSessionMarkdown(session, time) ==
    Header(session, time) \o JoinBlocks(session.messages, session.source)

----------------------------------------------------------------------------
\* Readers.  A raw record of a source's storage is
\*   [kind, name, createdAt, lastUpdatedAt, recs]
\* kind "composer": a Cursor composer (allComposers entry + its bubbles),
\* kind "legacy":   a Cursor legacy chat tab,
\* kind "copilot":  a Copilot Chat chatSessions/<id>.json file,
\* kind "claude":   a Claude <id>.jsonl event log (createdAt is its birthtime).
\* recs are the bubbles / requests / events: [type, text, createdAt].

Registry == <<"Claude", "Cursor", "Copilot Chat">>

ReaderOf(kind) ==
    CASE kind = "claude" -> "Claude"
      [] kind = "copilot" -> "Copilot Chat"
      [] OTHER -> "Cursor"

IdOrder == <<"t1", "c1", "c2", "p1", "p2", "k1">>

\* a || b || c on numbers: 0 is falsy
Or3(a, b, c) == IF a # 0 THEN a ELSE IF b # 0 THEN b ELSE c

\* sort((a, b) => a.key - b.key) on [key, val] pairs: stable, ascending
RECURSIVE InsertAsc(_, _)
InsertAsc(x, sorted) ==
    IF sorted = <<>> THEN <<x>>
    ELSE IF sorted[Len(sorted)].key <= x.key THEN Append(sorted, x)
    ELSE Append(InsertAsc(x, SubSeq(sorted, 1, Len(sorted) - 1)), sorted[Len(sorted)])

RECURSIVE SortPairs(_)
SortPairs(xs) ==
    IF xs = <<>> THEN <<>>
    ELSE InsertAsc(xs[Len(xs)], SortPairs(SubSeq(xs, 1, Len(xs) - 1)))

\* [...xs].sort((a, b) => Key(a) - Key(b))
SortAsc(xs, Key(_)) ==
    LET sorted == SortPairs([i \in 1..Len(xs) |-> [key |-> Key(xs[i]), val |-> xs[i]]])
    IN  [i \in 1..Len(xs) |-> sorted[i].val]

\* xs.sort((a, b) => Key(b) - Key(a)): stable, descending
SortDesc(xs, Key(_)) == SortAsc(xs, LAMBDA x : 0 - Key(x))

\* CursorParser.extractTextContent
extractTextContent(bubble) == Trim(bubble.text)

Flush(messages, pending) ==
    IF pending = <<>> THEN messages
    ELSE Append(messages, [role |-> "assistant", content |-> Trim(pending[1].content),
                           timestamp |-> pending[1].timestamp])

\* the loop of parseBubbles with a user bubble that leaves the pending
\* assistant message pending
RECURSIVE MergeBubblesKeepPending(_, _, _, _)
MergeBubblesKeepPending(bubbles, messages, pending, time) ==
    IF bubbles = <<>> THEN Flush(messages, pending)
    ELSE LET b == Head(bubbles)
             content == extractTextContent(b)
             timestamp == IF b.createdAt # 0 THEN b.createdAt ELSE time
         IN  IF content = <<>>
             THEN MergeBubblesKeepPending(Tail(bubbles), messages, pending, time)
             ELSE IF b.type = "user"
             THEN MergeBubblesKeepPending(Tail(bubbles),
                      Append(messages,
                             [role |-> "user", content |-> Trim(content),
                              timestamp |-> timestamp]),
                      pending, time)
             ELSE MergeBubblesKeepPending(Tail(bubbles), messages,
                      IF pending # <<>>
                      THEN <<[content |-> pending[1].content \o <<NL, NL>> \o content,
                              timestamp |-> pending[1].timestamp]>>
                      ELSE <<[content |-> content, timestamp |-> timestamp]>>,
                      time)

\* the loop of parseBubbles pushing every assistant bubble on its own
RECURSIVE MergeBubblesEachOnItsOwn(_, _, _, _)
MergeBubblesEachOnItsOwn(bubbles, messages, pending, time) ==
    IF bubbles = <<>> THEN Flush(messages, pending)
    ELSE LET b == Head(bubbles)
             content == extractTextContent(b)
             timestamp == IF b.createdAt # 0 THEN b.createdAt ELSE time
         IN  IF content = <<>>
             THEN MergeBubblesEachOnItsOwn(Tail(bubbles), messages, pending, time)
             ELSE IF b.type = "user"
             THEN MergeBubblesEachOnItsOwn(Tail(bubbles),
                      Append(Flush(messages, pending),
                             [role |-> "user", content |-> Trim(content),
                              timestamp |-> timestamp]),
                      <<>>, time)
             ELSE MergeBubblesEachOnItsOwn(Tail(bubbles), Flush(messages, pending),
                      <<[content |-> content, timestamp |-> timestamp]>>, time)

RECURSIVE MergeBubbles(_, _, _, _)
MergeBubbles(bubbles, messages, pending, time) ==
    IF bubbles = <<>> THEN Flush(messages, pending)
    ELSE LET b == Head(bubbles)
             content == extractTextContent(b)
             timestamp == IF b.createdAt # 0 THEN b.createdAt ELSE time
         IN  IF content = <<>> THEN MergeBubbles(Tail(bubbles), messages, pending, time)
             ELSE IF b.type = "user"
             THEN MergeBubbles(Tail(bubbles),
                      Append(Flush(messages, pending),
                             [role |-> "user", content |-> Trim(content),
                              timestamp |-> timestamp]),
                      <<>>, time)
             ELSE MergeBubbles(Tail(bubbles), messages,
                      IF pending # <<>>
                      THEN <<[content |-> pending[1].content \o <<NL, NL>> \o content,
                              timestamp |-> pending[1].timestamp]>>
                      ELSE <<[content |-> content, timestamp |-> timestamp]>>,
                      time)

parseBubbles(bubbles, time) ==
    MergeBubbles(SortAsc(bubbles, LAMBDA b : b.createdAt), <<>>, <<>>, time)

\* records that carry text, as messages stamped by Stamp
TextMessages(recs, Stamp(_)) ==
    LET kept == SelectSeq(recs, LAMBDA r : r.text # <<>>)
    IN  [i \in 1..Len(kept) |->
            [role |-> kept[i].type, content |-> kept[i].text,
             timestamp |-> Stamp(kept[i])]]

parseLegacyTabMessages(tab, time) ==
    TextMessages(tab.recs, LAMBDA b : IF tab.lastUpdatedAt # 0 THEN tab.lastUpdatedAt ELSE time)

isValidComposer(comp) ==
    LET hasCustomName == comp.name # <<>> /\ comp.name # <<"Untitled Composer">>
        lastUpdate == Or3(comp.lastUpdatedAt, comp.createdAt, 0)
        isActive == lastUpdate - comp.createdAt > 5000
    IN  hasCustomName \/ isActive

ComposerSession(id, comp, time) ==
    [id |-> id,
     title |-> IF comp.name # <<>> THEN comp.name ELSE <<"Untitled Composer">>,
     timestamp |-> Or3(comp.createdAt, comp.lastUpdatedAt, time),
     lastUpdatedAt |-> Or3(comp.lastUpdatedAt, comp.createdAt, time),
     messages |-> <<>>,
     source |-> "Cursor"]

LegacySession(id, tab, time) ==
    LET messages == parseLegacyTabMessages(tab, time)
    IN  [id |-> id,
         title |-> IF tab.name # <<>> THEN tab.name
                   ELSE Slice(messages[1].content, 0, TitleLimit),
         timestamp |-> Or3(tab.lastUpdatedAt, time, time),
         lastUpdatedAt |-> Or3(tab.lastUpdatedAt, time, time),
         messages |-> messages,
         source |-> "Cursor"]

CopilotMessages(data, time) ==
    TextMessages(data.recs,
        LAMBDA req : Or3(req.createdAt, data.createdAt, time)
                        + (IF req.type = "assistant" THEN 1000 ELSE 0))

CopilotSession(id, data, time) ==
    LET messages == CopilotMessages(data, time)
    IN  [id |-> id,
         title |-> Slice(messages[1].content, 0, TitleLimit),
         timestamp |-> Or3(data.lastUpdatedAt, data.createdAt, time),
         lastUpdatedAt |-> Or3(data.lastUpdatedAt, time, time),
         messages |-> messages,
         source |-> "Copilot Chat"]

\* ClaudeParser.  An event is [type, text, createdAt, error, tools]: text is
\* message.content (for a summary event, its summary), error and tools tell
\* whether the event carries an error and tool calls.  A tag is one
\* character of the text.
IdeOpen == "<ide_opened_file>"
IdeClose == "</ide_opened_file>"
CmdOpen == "<command-name>"
CmdClose == "</command-name>"
OutOpen == "<local-command-stdout>"
OutClose == "</local-command-stdout>"
Elbow == "|_"

\* the index of the first c in s at or after from, 0 when there is none
FirstAt(s, c, from) ==
    IF \E i \in from..Len(s) : s[i] = c
    THEN CHOOSE i \in from..Len(s) :
             s[i] = c /\ \A j \in from..(i - 1) : s[j] # c
    ELSE 0

\* content.replace(/<ide_[a-z_]+>[\s\S]*?<\/ide_[a-z_]+>/g, '')
RECURSIVE StripIde(_)
StripIde(s) ==
    IF s = <<>> THEN <<>>
    ELSE IF s[1] = IdeOpen /\ FirstAt(s, IdeClose, 2) # 0
    THEN StripIde(SubSeq(s, FirstAt(s, IdeClose, 2) + 1, Len(s)))
    ELSE <<s[1]>> \o StripIde(Tail(s))

\* content.match(/<open>(.*?)<\/close>/s): <<>> when there is no match, else
\* <<the text between the first open tag and the next close tag, trimmed>>
Between(s, open, close) ==
    LET i == FirstAt(s, open, 1)
        j == IF i = 0 THEN 0 ELSE FirstAt(s, close, i + 1)
    IN  IF j = 0 THEN <<>> ELSE <<Trim(SubSeq(s, i + 1, j - 1))>>

\* ClaudeParser.formatClaudeXml
formatClaudeXml(content) ==
    LET cmdMatch == Between(content, CmdOpen, CmdClose)
        outMatch == Between(content, OutOpen, OutClose)
    IN  IF cmdMatch # <<>> /\ cmdMatch[1] # <<>> /\ cmdMatch[1][1] = "/"
        THEN <<">", " ">> \o cmdMatch[1]
        ELSE IF outMatch # <<>>
        THEN <<">", " ", Elbow, " ">> \o outMatch[1]
        ELSE content

\* parseMessage without the removal of the <ide_...> blocks
parseMessageKeepIde(event, defaultTimestamp) ==
    IF event.type \notin {"user", "assistant", "summary"} THEN <<>>
    ELSE LET role == IF event.type = "user" THEN "user" ELSE "assistant"
             isSummary == event.type = "summary" /\ event.text # <<>>
             extracted == IF isSummary THEN <<"[Summary] ">> \o event.text
                          ELSE event.text
             content == IF extracted = <<>> /\ event.error THEN <<"Error">>
                        ELSE extracted
             shown == IF role = "user" THEN formatClaudeXml(content) ELSE content
             fallback == IF defaultTimestamp > 0 THEN defaultTimestamp ELSE now
         IN  IF extracted = <<>> /\ ~event.tools /\ ~event.error /\ ~isSummary
             THEN <<>>
             ELSE IF Trim(shown) = <<>> /\ ~event.error THEN <<>>
             ELSE <<[role |-> role, content |-> shown,
                     timestamp |-> IF event.createdAt # 0 THEN event.createdAt
                                   ELSE fallback]>>

\* ClaudeParser.parseMessage: <<>> (null) or <<the message>>
parseMessage(event, defaultTimestamp) ==
    IF event.type \notin {"user", "assistant", "summary"} THEN <<>>
    ELSE LET role == IF event.type = "user" THEN "user" ELSE "assistant"
             isSummary == event.type = "summary" /\ event.text # <<>>
             extracted == IF isSummary THEN <<"[Summary] ">> \o event.text
                          ELSE event.text
             content == IF extracted = <<>> /\ event.error THEN <<"Error">>
                        ELSE extracted
             cleanContent == Trim(StripIde(content))
             shown == IF role = "user" THEN formatClaudeXml(cleanContent) ELSE content
             fallback == IF defaultTimestamp > 0 THEN defaultTimestamp ELSE now
         IN  IF extracted = <<>> /\ ~event.tools /\ ~event.error /\ ~isSummary
             THEN <<>>
             ELSE IF role = "user" /\ cleanContent = <<>> THEN <<>>
             ELSE IF Trim(shown) = <<>> /\ ~event.error THEN <<>>
             ELSE <<[role |-> role, content |-> shown,
                     timestamp |-> IF event.createdAt # 0 THEN event.createdAt
                                   ELSE fallback]>>

\* the loop of parseSession over the events of the log
RECURSIVE ParseEvents(_, _)
ParseEvents(events, creationTime) ==
    IF events = <<>> THEN <<>>
    ELSE (IF Head(events).type \in {"user", "assistant"}
          THEN parseMessage(Head(events), creationTime) ELSE <<>>)
         \o ParseEvents(Tail(events), creationTime)

ClaudeMessages(log, creationTime) == ParseEvents(log.recs, creationTime)

\* a stored record as an event without error and tool calls
ClaudeLog(raw) ==
    [raw EXCEPT !.recs = [i \in 1..Len(raw.recs) |->
                             [type |-> raw.recs[i].type, text |-> raw.recs[i].text,
                              createdAt |-> raw.recs[i].createdAt,
                              error |-> FALSE, tools |-> FALSE]]]

ClaudeTitle(messages, sessionId) ==
    LET titled == SelectSeq(messages,
                      LAMBDA m : m.role = "user" /\ Trim(m.content) # <<>>)
    IN  IF titled # <<>> /\ Slice(titled[1].content, 0, TitleLimit) # <<>>
        THEN Slice(titled[1].content, 0, TitleLimit)
        ELSE <<sessionId>>

\* ClaudeParser.parseSession
parseSession(id, log, time) ==
    LET messages == ClaudeMessages(log, log.createdAt)
        startedAt == IF messages[1].timestamp # 0 THEN messages[1].timestamp
                     ELSE IF log.createdAt > 0 THEN log.createdAt ELSE time
    IN  [id |-> id,
         title |-> ClaudeTitle(messages, id),
         timestamp |-> startedAt,
         lastUpdatedAt |-> Or3(messages[Len(messages)].timestamp, startedAt, startedAt),
         messages |-> messages,
         source |-> "Claude"]

\* does the reader list a session for this raw record?
Listed(raw, time) ==
    CASE raw.kind = "composer" -> isValidComposer(raw)
      [] raw.kind = "legacy" -> parseLegacyTabMessages(raw, time) # <<>>
      [] raw.kind = "copilot" -> CopilotMessages(raw, time) # <<>>
      [] OTHER -> ClaudeMessages(ClaudeLog(raw), raw.createdAt) # <<>>

SessionOf(id, raw, time) ==
    CASE raw.kind = "composer" -> ComposerSession(id, raw, time)
      [] raw.kind = "legacy" -> LegacySession(id, raw, time)
      [] raw.kind = "copilot" -> CopilotSession(id, raw, time)
      [] OTHER -> parseSession(id, ClaudeLog(raw), time)

\* reader.getSessions(dbPath): storage order, then sorted by timestamp
\* descending
getSessions(reader, st, time) ==
    LET ids == SelectSeq(IdOrder,
                   LAMBDA id : /\ id \in DOMAIN st
                               /\ ReaderOf(st[id].kind) = reader
                               /\ Listed(st[id], time))
        sessions == [i \in 1..Len(ids) |-> SessionOf(ids[i], st[ids[i]], time)]
    IN  SortDesc(sessions, LAMBDA s : s.timestamp)

\* Does the reader registered under this name have fetchSessionContent?
HasFetch(reader) == reader = "Cursor"

\* CursorReader.fetchSessionContent: the composer's bubbles, parsed; nothing
\* when the composer is not in the workspace's metadata
fetchSessionContent(sessionId, st, time) ==
    IF sessionId \in DOMAIN st /\ st[sessionId].kind = "composer"
    THEN parseBubbles(st[sessionId].recs, time)
    ELSE <<>>

----------------------------------------------------------------------------
\* WorkspaceMatcher.  A path is a sequence of characters.

SL == "/"
BS == "\\"

RECURSIVE Split(_)
\* p.split('/')
Split(p) ==
    IF \A i \in 1..Len(p) : p[i] # SL THEN <<p>>
    ELSE LET i == CHOOSE j \in 1..Len(p) : p[j] = SL /\ \A k \in 1..(j - 1) : p[k] # SL
         IN  <<SubSeq(p, 1, i - 1)>> \o Split(SubSeq(p, i + 1, Len(p)))

RECURSIVE Join(_)
Join(segs) ==
    IF segs = <<>> THEN <<>>
    ELSE IF Len(segs) = 1 THEN segs[1]
    ELSE segs[1] \o <<SL>> \o Join(Tail(segs))

Dot == <<".">>
DotDot == <<".", ".">>

RECURSIVE NormalizeSegments(_, _, _)
NormalizeSegments(segs, kept, isAbsolute) ==
    IF segs = <<>> THEN kept
    ELSE LET seg == Head(segs)
             rest == Tail(segs)
         IN  IF seg = <<>> \/ seg = Dot THEN NormalizeSegments(rest, kept, isAbsolute)
             ELSE IF seg = DotDot
             THEN IF kept # <<>> /\ kept[Len(kept)] # DotDot
                  THEN NormalizeSegments(rest, SubSeq(kept, 1, Len(kept) - 1), isAbsolute)
                  ELSE IF isAbsolute THEN NormalizeSegments(rest, kept, isAbsolute)
                  ELSE NormalizeSegments(rest, Append(kept, seg), isAbsolute)
             ELSE NormalizeSegments(rest, Append(kept, seg), isAbsolute)

\* path.normalize (POSIX)
PathNormalize(p) ==
    IF p = <<>> THEN Dot
    ELSE LET isAbsolute == p[1] = SL
             trailingSeparator == p[Len(p)] = SL
             body == Join(NormalizeSegments(Split(p), <<>>, isAbsolute))
             tailed == IF body = <<>>
                       THEN IF isAbsolute THEN <<>>
                            ELSE IF trailingSeparator THEN <<".", SL>> ELSE Dot
                       ELSE IF trailingSeparator THEN body \o <<SL>> ELSE body
         IN  IF isAbsolute THEN <<SL>> \o tailed ELSE tailed

RECURSIVE StripTrailingSlashes(_)
StripTrailingSlashes(p) ==
    IF p # <<>> /\ p[Len(p)] = SL THEN StripTrailingSlashes(SubSeq(p, 1, Len(p) - 1))
    ELSE p

\* path.basename (POSIX)
Basename(p) ==
    LET segs == Split(StripTrailingSlashes(p))
    IN  segs[Len(segs)]

normalizePath(p) ==
    LET unifiedPath == MapSeq(p, LAMBDA c : IF c = BS THEN SL ELSE c)
    IN  MapSeq(PathNormalize(unifiedPath), Lower)

\* the most recently modified folder of the project's name, exact or not
findBestMatchRecentFirst(workspaces, currentWorkspaceRoot, vscodeWorkspaceFile) ==
    LET currentBasename == Basename(normalizePath(currentWorkspaceRoot))
        candidates == SelectSeq(workspaces,
                          LAMBDA ws : Basename(normalizePath(ws.path)) = currentBasename)
    IN  IF candidates # <<>>
        THEN <<SortDesc(candidates, LAMBDA ws : ws.lastModified)[1]>>
        ELSE <<>>

\* WorkspaceMatcher.findBestMatch; vscodeWorkspaceFile is <<>> when absent;
\* the result is <<>> (undefined) or <<the descriptor>>
findBestMatch(workspaces, currentWorkspaceRoot, vscodeWorkspaceFile) ==
    IF workspaces = <<>> THEN <<>>
    ELSE LET normalizedRoot == normalizePath(currentWorkspaceRoot)
             hasWsFile == vscodeWorkspaceFile # <<>>
             normalizedWsFile == normalizePath(vscodeWorkspaceFile)
             exact == SelectSeq(workspaces,
                          LAMBDA ws : \/ (hasWsFile /\ normalizePath(ws.path) = normalizedWsFile)
                                      \/ normalizePath(ws.path) = normalizedRoot)
             currentBasename == Basename(normalizedRoot)
             candidates == SelectSeq(workspaces,
                               LAMBDA ws : Basename(normalizePath(ws.path)) = currentBasename)
         IN  IF exact # <<>> THEN <<exact[1]>>
             ELSE IF candidates # <<>>
             THEN <<SortDesc(candidates, LAMBDA ws : ws.lastModified)[1]>>
             ELSE <<>>

----------------------------------------------------------------------------
\* The sources at start-up

WorkspaceRoot == <<SL, "a", SL, "b">>
WorkspaceFile == <<>>

\* The workspace folders each source knows: w1 is the open project (stored
\* with another letter case), w2 another project of the same folder name,
\* w3 an unrelated project.
WorkspaceTable ==
    <<[id |-> "w2", path |-> <<SL, "c", SL, "b">>, lastModified |-> 9000],
      [id |-> "w1", path |-> <<SL, "A", SL, "b">>, lastModified |-> 5000],
      [id |-> "w3", path |-> <<SL, "a", SL, "c">>, lastModified |-> 7000]>>

Rec(type, text, createdAt) == [type |-> type, text |-> text, createdAt |-> createdAt]

SeparatorText == <<"a", NL, HY, HY, HY, NL, "b">>

Candidates ==
    [c1 |-> [kind |-> "composer", ws |-> "w1", name |-> <<"a", " ", "b">>,
             createdAt |-> 1000, lastUpdatedAt |-> 8000,
             recs |-> <<Rec("user", <<"a">>, 1000)>>],
     c2 |-> [kind |-> "composer", ws |-> "w1", name |-> <<"a", "_", "b">>,
             createdAt |-> 2000, lastUpdatedAt |-> 9000,
             recs |-> <<Rec("user", <<"b">>, 2000), Rec("assistant", <<"c">>, 3000)>>],
     t1 |-> [kind |-> "legacy", ws |-> "w1", name |-> <<>>,
             createdAt |-> 0, lastUpdatedAt |-> 3000,
             recs |-> <<Rec("user", <<".", ".", SL, "a">>, 0)>>],
     p1 |-> [kind |-> "copilot", ws |-> "w1", name |-> <<>>,
             createdAt |-> 1000, lastUpdatedAt |-> 2000,
             recs |-> <<Rec("user", <<"a">>, 1000), Rec("assistant", <<"b">>, 1000)>>],
     p2 |-> [kind |-> "copilot", ws |-> "w3", name |-> <<>>,
             createdAt |-> 1000, lastUpdatedAt |-> 1000,
             recs |-> <<Rec("user", <<"c">>, 1000)>>],
     k1 |-> [kind |-> "claude", ws |-> "w1", name |-> <<>>,
             createdAt |-> 1000, lastUpdatedAt |-> 1000,
             recs |-> <<Rec("user", <<"A", " ", "b">>, 4000)>>]]

Ids == DOMAIN Candidates

Scenarios == {{"c1", "c2"}, {"t1", "k1", "p2"}, {"p1"}}

InitialStores == {[id \in ids |-> Candidates[id]] : ids \in Scenarios}

\* what an assistant may add to a conversation
Additions ==
    {[type |-> "user", text |-> <<"c">>],
     [type |-> "assistant", text |-> <<"c">>],
     [type |-> "assistant", text |-> SeparatorText]}

\* reader.getWorkspaces(): the folders holding at least one listed session
getWorkspaces(reader, st, time) ==
    SelectSeq(WorkspaceTable,
        LAMBDA ws : \E id \in DOMAIN st : /\ st[id].ws = ws.id
                                          /\ ReaderOf(st[id].kind) = reader
                                          /\ Listed(st[id], time))

\* the sessions of one workspace folder
InWorkspace(st, wsId) == [id \in {i \in DOMAIN st : st[i].ws = wsId} |-> st[id]]

----------------------------------------------------------------------------
\* AutoSaveService

TickIds == 1..MaxInFlight

NoSession ==
    [id |-> "", title |-> <<>>, timestamp |-> 0, lastUpdatedAt |-> 0,
     messages |-> <<>>, source |-> ""]

Idle ==
    [pc |-> "idle", readers |-> <<>>, dbPath |-> "", sessions |-> <<>>,
     cur |-> NoSession, target |-> <<>>, count |-> 0]

NoOutcome == [id |-> "", result |-> "none", file |-> <<>>, n |-> 0, k |-> 0]

InFlight(t) == tick[t].pc # "idle"

\* the extension is activated ten seconds into the first minute
Init ==
    /\ now = 10000
    /\ syncInterval = "null"
    /\ nextFire = 0
    /\ store \in InitialStores
    /\ files = <<>>
    /\ syncState = [id \in Ids |-> 0]
    /\ tick = [t \in TickIds |-> Idle]
    /\ edits = 0
    /\ last = NoOutcome
    /\ touched = {}
    /\ quiet = 0
    /\ overlapped = FALSE
    /\ timers = 0
    /\ stops = 0
    /\ autoSave = TRUE
    /\ input = <<>>
    /\ output = <<>>

\* the for-loop with every session sent to the lazy load, whatever its list
DispatchFetchAll(rec) ==
    IF rec.sessions = <<>>
    THEN [rec EXCEPT !.pc = "reader", !.readers = Tail(@), !.cur = NoSession,
                     !.target = <<>>, !.count = 0, !.dbPath = ""]
    ELSE [rec EXCEPT !.pc = "ensure",
                     !.cur = Head(rec.sessions), !.sessions = Tail(@),
                     !.target = <<>>, !.count = 0]

\* the for-loop of processProviderSessions moves on: the next session of the
\* reader, or the next reader when none is left
Dispatch(rec) ==
    IF rec.sessions = <<>>
    THEN [rec EXCEPT !.pc = "reader", !.readers = Tail(@), !.cur = NoSession,
                     !.target = <<>>, !.count = 0, !.dbPath = ""]
    ELSE [rec EXCEPT !.pc = IF Head(rec.sessions).messages = <<>> THEN "ensure" ELSE "find",
                     !.cur = Head(rec.sessions), !.sessions = Tail(@),
                     !.target = <<>>, !.count = 0]

\* syncSession returned `result` for tick t's current session
Outcome(t, result, file, k) ==
    LET session == tick[t].cur
    IN  /\ last' = [id |-> session.id, result |-> result, file |-> file,
                    n |-> Len(session.messages), k |-> k]
        /\ touched' = IF file = <<>> THEN touched
                      ELSE touched \cup {<<session.id, file, result>>}
        /\ syncState' = IF session.lastUpdatedAt # 0
                        THEN [syncState EXCEPT ![session.id] = session.lastUpdatedAt]
                        ELSE syncState
        /\ tick' = [tick EXCEPT ![t] = Dispatch(tick[t])]

\* syncAllExportedSessions() without the look at the setting
LaunchWhateverSetting ==
    /\ \E t \in TickIds :
          /\ ~InFlight(t)
          /\ \A u \in TickIds : u < t => InFlight(u)
          /\ tick' = [tick EXCEPT ![t] = [Idle EXCEPT !.pc = "prepare"]]
    /\ quiet' = Min(quiet + 1, 2)
    /\ overlapped' = (overlapped \/ \E u \in TickIds : InFlight(u))

\* syncAllExportedSessions() is called: it returns at once when the setting
\* is off, and else runs up to its first await
Launch ==
    IF ~autoSave
    THEN UNCHANGED <<tick, quiet, overlapped>>
    ELSE /\ \E t \in TickIds :
               /\ ~InFlight(t)
               /\ \A u \in TickIds : u < t => InFlight(u)
               /\ tick' = [tick EXCEPT ![t] = [Idle EXCEPT !.pc = "prepare"]]
         /\ quiet' = Min(quiet + 1, 2)
         /\ overlapped' = (overlapped \/ \E u \in TickIds : InFlight(u))

\* start() arming the timer without the run it makes at once
StartWithoutRun ==
    /\ syncInterval = "null"
    /\ syncInterval' = "armed"
    /\ nextFire' = now + SYNC_INTERVAL_MS
    /\ timers' = timers + 1
    /\ UNCHANGED <<now, store, files, syncState, tick, edits, last, touched, quiet,
                   overlapped, input, output, stops, autoSave>>

\* start() without the look at the timer it may hold already
StartArmedAgain ==
    /\ Launch
    /\ syncInterval' = "armed"
    /\ nextFire' = now + SYNC_INTERVAL_MS
    /\ timers' = timers + 1
    /\ UNCHANGED <<now, store, files, syncState, edits, last, touched, input, output,
                   stops, autoSave>>

\* start(): nothing when a timer is held ('Already running'); else one run
\* at once and setInterval
Start ==
    \/ /\ syncInterval # "null"
       /\ UNCHANGED vars
    \/ /\ syncInterval = "null"
       /\ Launch
       /\ syncInterval' = "armed"
       /\ nextFire' = now + SYNC_INTERVAL_MS
       /\ timers' = timers + 1
       /\ UNCHANGED <<now, store, files, syncState, edits, last, touched, input, output,
                      stops, autoSave>>

TimerFire ==
    /\ syncInterval = "armed"
    /\ now >= nextFire
    /\ Launch
    /\ nextFire' = nextFire + SYNC_INTERVAL_MS
    /\ UNCHANGED <<now, syncInterval, store, files, syncState, edits, last, touched,
                   input, output,
                   timers, stops, autoSave>>

\* time passes; an interval timer that is due fires first
ElapseSlow ==
    /\ now < MaxIntervals * SYNC_INTERVAL_MS
    /\ ~(syncInterval = "armed" /\ now >= nextFire)
    /\ now' = now + SYNC_INTERVAL_MS
    /\ UNCHANGED <<syncInterval, nextFire, store, files, syncState, tick, edits,
                   last, touched, quiet, overlapped, input, output,
                   timers, stops, autoSave>>

\* a sync run takes seconds: the interval passes between runs
Elapse ==
    /\ \A t \in TickIds : ~InFlight(t)
    /\ ElapseSlow

\* prepareHistoryDirectory, getActiveProviders
Prepare(t) ==
    /\ tick[t].pc = "prepare"
    /\ tick' = [tick EXCEPT ![t].pc = "reader", ![t].readers = Registry]
    /\ UNCHANGED <<now, syncInterval, nextFire, store, files, syncState, edits,
                   last, touched, quiet, overlapped, input, output,
                   timers, stops, autoSave>>

\* the for-loop of syncAllExportedSessions ended
Finish(t) ==
    /\ tick[t].pc = "reader"
    /\ tick[t].readers = <<>>
    /\ tick' = [tick EXCEPT ![t] = Idle]
    /\ UNCHANGED <<now, syncInterval, nextFire, store, files, syncState, edits,
                   last, touched, quiet, overlapped, input, output,
                   timers, stops, autoSave>>

\* processProviderSessions falling back to the reader's first workspace
ProcessProviderAnyWorkspace(t) ==
    /\ tick[t].pc = "reader"
    /\ tick[t].readers # <<>>
    /\ LET reader == Head(tick[t].readers)
           workspaces == getWorkspaces(reader, store, now)
           found == findBestMatch(workspaces, WorkspaceRoot, WorkspaceFile)
           currentWorkspace == IF found = <<>> /\ workspaces # <<>>
                               THEN <<workspaces[1]>> ELSE found
       IN  IF currentWorkspace = <<>>
           THEN tick' = [tick EXCEPT ![t].readers = Tail(@)]
           ELSE LET dbPath == currentWorkspace[1].id
                    sessions == getSessions(reader, InWorkspace(store, dbPath), now)
                IN  tick' = [tick EXCEPT ![t] =
                                Dispatch([tick[t] EXCEPT !.dbPath = dbPath,
                                                         !.sessions = sessions])]
    /\ UNCHANGED <<now, syncInterval, nextFire, store, files, syncState, edits,
                   last, touched, quiet, overlapped, input, output,
                   timers, stops, autoSave>>

\* processProviderSessions up to its loop: getWorkspaces, findBestMatch,
\* getSessions
ProcessProvider(t) ==
    /\ tick[t].pc = "reader"
    /\ tick[t].readers # <<>>
    /\ LET reader == Head(tick[t].readers)
           workspaces == getWorkspaces(reader, store, now)
           currentWorkspace == findBestMatch(workspaces, WorkspaceRoot, WorkspaceFile)
       IN  IF currentWorkspace = <<>>
           THEN tick' = [tick EXCEPT ![t].readers = Tail(@)]
           ELSE LET dbPath == currentWorkspace[1].id
                    sessions == getSessions(reader, InWorkspace(store, dbPath), now)
                IN  tick' = [tick EXCEPT ![t] =
                                Dispatch([tick[t] EXCEPT !.dbPath = dbPath,
                                                         !.sessions = sessions])]
    /\ UNCHANGED <<now, syncInterval, nextFire, store, files, syncState, edits,
                   last, touched, quiet, overlapped, input, output,
                   timers, stops, autoSave>>

\* ensureSessionContent without the check for an empty message list
EnsureContentNoSkip(t) ==
    /\ tick[t].pc = "ensure"
    /\ LET session == tick[t].cur
           fetched == IF HasFetch(session.source)
                      THEN fetchSessionContent(session.id,
                               InWorkspace(store, tick[t].dbPath), now)
                      ELSE <<>>
       IN  \E messages \in {fetched, <<>>} :
              /\ quiet' = IF messages # fetched THEN 0 ELSE quiet
              /\ tick' = [tick EXCEPT ![t].cur.messages = messages, ![t].pc = "find"]
    /\ UNCHANGED <<now, syncInterval, nextFire, store, files, syncState, edits, last,
                   touched, overlapped, input, output,
                   timers, stops, autoSave>>

\* ensureSessionContent: the reader's fetch answers with the messages, or
\* with none when it cannot read its storage
EnsureContent(t) ==
    /\ tick[t].pc = "ensure"
    /\ LET session == tick[t].cur
           fetched == IF HasFetch(session.source)
                      THEN fetchSessionContent(session.id,
                               InWorkspace(store, tick[t].dbPath), now)
                      ELSE <<>>
       IN  \E messages \in {fetched, <<>>} :
              /\ quiet' = IF messages # fetched THEN 0 ELSE quiet
              /\ IF messages = <<>>
                 THEN Outcome(t, "skipped", <<>>, 0)
                 ELSE /\ tick' = [tick EXCEPT ![t].cur.messages = messages,
                                              ![t].pc = "find"]
                      /\ UNCHANGED <<last, touched, syncState>>
    /\ UNCHANGED <<now, syncInterval, nextFire, store, files, edits, overlapped,
                   input, output,
                   timers, stops, autoSave>>

\* findExistingFile
FindExisting(t) ==
    /\ tick[t].pc = "find"
    /\ LET filename == generateFilename(tick[t].cur)
       IN  tick' = [tick EXCEPT ![t].target = filename,
                                ![t].pc = IF filename \in DOMAIN files
                                          THEN "count" ELSE "create"]
    /\ UNCHANGED <<now, syncInterval, nextFire, store, files, syncState, edits,
                   last, touched, quiet, overlapped, input, output,
                   timers, stops, autoSave>>

Put(fs, name, text) == [f \in DOMAIN fs \cup {name} |-> IF f = name THEN text ELSE fs[f]]

\* createNewFile
CreateNewFile(t) ==
    /\ tick[t].pc = "create"
    /\ LET filename == generateFilename(tick[t].cur)
       IN  /\ files' = Put(files, filename, formatSessionMarkdown(tick[t].cur, now))
           /\ Outcome(t, "created", filename, 0)
    /\ UNCHANGED <<now, syncInterval, nextFire, store, edits, quiet, overlapped,
                   input, output,
                   timers, stops, autoSave>>

\* appendNewMessages comparing with !== instead of >
CountExistingNotEqual(t) ==
    /\ tick[t].pc = "count"
    /\ LET fileMessageCount == getFileMessageCount(files[tick[t].target])
       IN  IF Len(tick[t].cur.messages) # fileMessageCount
           THEN /\ tick' = [tick EXCEPT ![t].count = fileMessageCount, ![t].pc = "append"]
                /\ UNCHANGED <<last, touched, syncState>>
           ELSE Outcome(t, "skipped", tick[t].target, fileMessageCount)
    /\ UNCHANGED <<now, syncInterval, nextFire, store, files, edits, quiet, overlapped,
                   input, output,
                   timers, stops, autoSave>>

\* appendNewMessages up to its await of appendFile
CountExisting(t) ==
    /\ tick[t].pc = "count"
    /\ LET fileMessageCount == getFileMessageCount(files[tick[t].target])
       IN  IF Len(tick[t].cur.messages) > fileMessageCount
           THEN /\ tick' = [tick EXCEPT ![t].count = fileMessageCount, ![t].pc = "append"]
                /\ UNCHANGED <<last, touched, syncState>>
           ELSE Outcome(t, "skipped", tick[t].target, fileMessageCount)
    /\ UNCHANGED <<now, syncInterval, nextFire, store, files, edits, quiet, overlapped,
                   input, output,
                   timers, stops, autoSave>>

\* the whole session rendered again over the existing file
AppendRewrite(t) ==
    /\ tick[t].pc = "append"
    /\ files' = Put(files, tick[t].target, formatSessionMarkdown(tick[t].cur, now))
    /\ Outcome(t, "updated", tick[t].target, tick[t].count)
    /\ UNCHANGED <<now, syncInterval, nextFire, store, edits, quiet, overlapped,
                   input, output,
                   timers, stops, autoSave>>

\* fs.appendFile(existingFile, '\n' + newContent)
AppendNewMessages(t) ==
    /\ tick[t].pc = "append"
    /\ LET session == tick[t].cur
           newMessages == SubSeq(session.messages, tick[t].count + 1, Len(session.messages))
           newContent == formatMessages(newMessages, session.source)
           old == IF tick[t].target \in DOMAIN files THEN files[tick[t].target] ELSE <<>>
       IN  /\ files' = Put(files, tick[t].target, old \o <<NL>> \o newContent)
           /\ Outcome(t, "updated", tick[t].target, tick[t].count)
    /\ UNCHANGED <<now, syncInterval, nextFire, store, edits, quiet, overlapped,
                   input, output,
                   timers, stops, autoSave>>

----------------------------------------------------------------------------
\* The assistants: a conversation gains a record, or loses its last one

Changed ==
    /\ edits < MaxEdits
    /\ edits' = edits + 1
    /\ quiet' = 0
    /\ UNCHANGED <<now, syncInterval, nextFire, files, syncState, tick, last,
                   touched, overlapped, input, output,
                   timers, stops, autoSave>>

SourceGrow ==
    /\ \E id \in DOMAIN store, add \in Additions :
          store' = [store EXCEPT ![id].recs = Append(@, Rec(add.type, add.text, now)),
                                 ![id].lastUpdatedAt = now]
    /\ Changed

SourceTruncate ==
    /\ \E id \in DOMAIN store :
          /\ store[id].recs # <<>>
          /\ store' = [store EXCEPT ![id].recs = SubSeq(@, 1, Len(@) - 1),
                                    ![id].lastUpdatedAt = now]
    /\ Changed

Step(t) ==
    \/ Prepare(t)
    \/ ProcessProvider(t)
    \/ EnsureContent(t)
    \/ FindExisting(t)
    \/ CreateNewFile(t)
    \/ CountExisting(t)
    \/ AppendNewMessages(t)
    \/ Finish(t)

Next ==
    \/ Start
    \/ TimerFire
    \/ Elapse
    \/ SourceGrow
    \/ SourceTruncate
    \/ \E t \in TickIds : Step(t)

Spec == Init /\ [][Next]_vars

\* a sync run may still be in flight when the interval timer fires again
NextSlow ==
    \/ Start
    \/ TimerFire
    \/ ElapseSlow
    \/ SourceGrow
    \/ SourceTruncate
    \/ \E t \in TickIds : Step(t)

SpecSlow == Init /\ [][NextSlow]_vars

----------------------------------------------------------------------------
\* Properties of the background sync

IsPrefix(a, b) == Len(a) <= Len(b) /\ SubSeq(b, 1, Len(a)) = a

Writing(t) == tick[t].pc \in {"create", "append"}

AppendOnly ==
    [][\A f \in DOMAIN files : f \in DOMAIN files' /\ IsPrefix(files[f], files'[f])]_vars

\* a grown session was appended to the artifact created for it earlier
AppendOnlyWitness ==
    \E a \in touched, b \in touched :
        /\ a[1] = b[1] /\ a[2] = b[2]
        /\ a[3] = "created" /\ b[3] = "updated"
        /\ Len(files[a[2]]) > 0

\* C3 (incremental growth): after an append the artifact holds exactly as
\* many separator-delimited blocks as the session has messages.
AppendReachesMessageCount ==
    last.result = "updated" => getFileMessageCount(files[last.file]) = last.n

\* C5 (timestamp stability): a session never gets a second artifact under a
\* new name.
OneArtifactPerSession ==
    \A a \in touched, b \in touched :
        a[1] = b[1] /\ a[3] = "created" /\ b[3] = "created" => a[2] = b[2]

\* C6 (unique target path): no artifact is counted or written for two
\* distinct sessions.
OneSessionPerArtifact ==
    \A a \in touched, b \in touched : a[2] = b[2] => a[1] = b[1]

\* C7 (tick exclusion): two runs are never both past reading the same
\* artifact and about to write it.
TickExclusion ==
    \A t \in TickIds, u \in TickIds :
        t # u /\ Writing(t) /\ Writing(u) => tick[t].target # tick[u].target

\* C4 (filename stability): the filename of a session being synced does not
\* depend on lastUpdatedAt nor on messages gained after the first user
\* message.
LaterStamps == {0, 1000, 70000, 130000}

LaterMessages ==
    {<<>>,
     <<[role |-> "assistant", content |-> <<"c">>, timestamp |-> 70000]>>,
     <<[role |-> "user", content |-> <<"b">>, timestamp |-> 70000]>>}

FilenameStable ==
    \A t \in TickIds : tick[t].cur.id # "" =>
        \A stamp \in LaterStamps, more \in LaterMessages :
            LET session == tick[t].cur
                later == [session EXCEPT !.lastUpdatedAt = stamp,
                                         !.messages = session.messages \o more]
            IN  FirstUser(later.messages) = FirstUser(session.messages)
                    => generateFilename(later) = generateFilename(session)

\* a Claude session updated after its first message is being synced
FilenameStableWitness ==
    \E t \in TickIds :
        /\ tick[t].pc = "find"
        /\ tick[t].cur.source = "Claude"
        /\ tick[t].cur.lastUpdatedAt # tick[t].cur.timestamp
        /\ FirstUser(tick[t].cur.messages) # <<>>

NoEmptyArtifact ==
    /\ \A t \in TickIds :
          tick[t].pc \in {"find", "create", "count", "append"}
              => tick[t].cur.messages # <<>>
    /\ \A f \in DOMAIN files : getFileMessageCount(files[f]) >= 1
    /\ (last.result # "none" /\ last.n = 0
           => last.result = "skipped" /\ last.file = <<>>)

\* a lazily described session came back empty and was skipped
NoEmptyArtifactWitness ==
    /\ last.id \in DOMAIN store
    /\ last.n = 0
    /\ last.result = "skipped"
    /\ store[last.id].kind = "composer"

----------------------------------------------------------------------------
\* findBestMatch applied on its own

MaxWorkspaces == 2

PathPool ==
    {<<SL, "a", SL, "b">>, <<BS, "A", BS, "b">>, <<SL, "c", SL, "b">>,
     <<SL, "a", SL, "b", SL>>, <<SL, "a", SL, "c">>, <<SL, "a", SL, "w">>}

Descriptors == [path : PathPool, lastModified : {1000, 2000}]

WorkspaceLists ==
    UNION {[1..n -> Descriptors] : n \in 0..MaxWorkspaces}

MatchInputs ==
    [workspaces : WorkspaceLists,
     root : {<<SL, "a", SL, "b">>},
     workspaceFile : {<<>>, <<SL, "a", SL, "w">>}]

Pending == [done |-> FALSE, value |-> <<>>]

InitMatch ==
    /\ now = 0
    /\ syncInterval = "null"
    /\ nextFire = 0
    /\ store = <<>>
    /\ files = <<>>
    /\ syncState = [id \in Ids |-> 0]
    /\ tick = [t \in TickIds |-> Idle]
    /\ edits = 0
    /\ last = NoOutcome
    /\ touched = {}
    /\ quiet = 0
    /\ overlapped = FALSE
    /\ timers = 0
    /\ stops = 0
    /\ autoSave = TRUE
    /\ input \in MatchInputs
    /\ output = Pending

ApplyFindBestMatch ==
    /\ output = Pending
    /\ output' = [done |-> TRUE,
                  value |-> findBestMatch(input.workspaces, input.root,
                                          input.workspaceFile)]
    /\ UNCHANGED <<service, input>>

NextMatch == ApplyFindBestMatch

SpecMatch == InitMatch /\ [][NextMatch]_vars

Listing(list) == {list[i] : i \in 1..Len(list)}

SamePath(p, q) == normalizePath(p) = normalizePath(q)

RootMatches == {ws \in Listing(input.workspaces) : SamePath(ws.path, input.root)}

FileMatches ==
    {ws \in Listing(input.workspaces) :
        input.workspaceFile # <<>> /\ SamePath(ws.path, input.workspaceFile)}

NameMatches ==
    {ws \in Listing(input.workspaces) :
        Basename(normalizePath(ws.path)) = Basename(normalizePath(input.root))}

MostRecent(ws, among) == \A other \in among : other.lastModified <= ws.lastModified

FallbackOnly ==
    RootMatches \cup FileMatches = {} =>
        IF NameMatches = {} THEN output.value = <<>>
        ELSE /\ output.value # <<>>
             /\ output.value[1] \in NameMatches
             /\ MostRecent(output.value[1], NameMatches)

\* C10 as claimed: whenever a descriptor's path equals the project root, the
\* result is a descriptor whose path equals the project root.
RootMatchAlwaysWins ==
    output.done /\ RootMatches # {} =>
        output.value # <<>> /\ output.value[1] \in RootMatches

\* C10 (matching precedence), amended: whenever a descriptor's path equals
\* the project root or the given workspace file, the result is such a
\* descriptor, and one equal to the project root when none equals the
\* workspace file; only without any exact match the result is a descriptor
\* of the project's basename with the greatest lastModified.
ExactBeforeFuzzy ==
    output.done =>
        /\ (RootMatches \cup FileMatches # {} =>
               /\ output.value # <<>>
               /\ output.value[1] \in RootMatches \cup FileMatches)
        /\ (RootMatches # {} /\ FileMatches = {} =>
               output.value # <<>> /\ output.value[1] \in RootMatches)
        /\ FallbackOnly

\* the project's own folder was returned although another folder of the
\* same name is more recent
ExactBeforeFuzzyWitness ==
    /\ output.done
    /\ output.value # <<>>
    /\ output.value[1] \in RootMatches
    /\ \E other \in NameMatches \ RootMatches :
          other.lastModified > output.value[1].lastModified


\* C11 (workspace-file priority): when one descriptor equals the given
\* workspace file and another equals the project root, the result is the one
\* equal to the workspace file, whatever their order in the list.
WorkspaceFileWins ==
    output.done /\ FileMatches # {} /\ RootMatches # {} =>
        output.value # <<>> /\ output.value[1] \in FileMatches


\* no folder the reader knows equals the project root or has its basename
NoMatchFor(reader) ==
    \A ws \in Listing(getWorkspaces(reader, store, now)) :
        /\ ~SamePath(ws.path, WorkspaceRoot)
        /\ Basename(normalizePath(ws.path)) # Basename(normalizePath(WorkspaceRoot))

\* C12 (no match is not an error): when the reader's folder list is empty or
\* holds no exact and no basename match, findBestMatch returns undefined and
\* the run moves on to the next reader: no session is listed, no outcome is
\* recorded and no file changes.
NoMatchSkipsReader ==
    /\ [](\A reader \in Listing(Registry) :
             NoMatchFor(reader) =>
                 findBestMatch(getWorkspaces(reader, store, now),
                               WorkspaceRoot, WorkspaceFile) = <<>>)
    /\ [][\A t \in TickIds :
             (/\ tick[t].pc = "reader"
              /\ tick[t].readers # <<>>
              /\ NoMatchFor(Head(tick[t].readers))
              /\ tick'[t] # tick[t])
             => /\ tick'[t] = [tick[t] EXCEPT !.readers = Tail(@)]
                /\ files' = files
                /\ last' = last
                /\ syncState' = syncState]_vars

\* the run passed a reader that knows only an unrelated folder, and went on
\* to the end of the registry
NoMatchSkipsReaderWitness ==
    \E t \in TickIds :
        /\ tick[t].pc = "reader"
        /\ tick[t].readers = <<>>
        /\ getWorkspaces("Copilot Chat", store, now) # <<>>
        /\ NoMatchFor("Copilot Chat")
        /\ last.id # ""
        /\ \A a \in touched : a[1] # "p2"


----------------------------------------------------------------------------
\* CursorParser.parseBubbles applied on its own

MaxBubbles == 3

\* the service's variables while a function is applied on its own
AtRest ==
    /\ now = 0
    /\ syncInterval = "null"
    /\ nextFire = 0
    /\ store = <<>>
    /\ files = <<>>
    /\ syncState = [id \in Ids |-> 0]
    /\ tick = [t \in TickIds |-> Idle]
    /\ edits = 0
    /\ last = NoOutcome
    /\ touched = {}
    /\ quiet = 0
    /\ overlapped = FALSE
    /\ timers = 0
    /\ stops = 0
    /\ autoSave = TRUE

BubbleTexts == {<<>>, <<" ">>, <<"a">>, <<"b", " ">>}

Bubbles == [type : {"user", "assistant"}, text : BubbleTexts, createdAt : {1000, 2000}]

BubbleLists == UNION {[1..n -> Bubbles] : n \in 0..MaxBubbles}

InitBubbles ==
    /\ AtRest
    /\ input \in BubbleLists
    /\ output = Pending

ApplyParseBubbles ==
    /\ output = Pending
    /\ output' = [done |-> TRUE, value |-> parseBubbles(input, now)]
    /\ UNCHANGED <<service, input>>

NextBubbles == ApplyParseBubbles

SpecBubbles == InitBubbles /\ [][NextBubbles]_vars

\* the bubbles in createdAt order
InOrder == SortAsc(input, LAMBDA b : b.createdAt)

HasContent(b) == Trim(b.text) # <<>>

\* the bubbles that carry content
WithContent == SelectSeq(InOrder, HasContent)

\* the bubbles that carry content, and every user bubble
WithContentOrUser == SelectSeq(InOrder, LAMBDA b : HasContent(b) \/ b.type = "user")

\* an assistant bubble that carries content begins a run in the list k
RunStart(k, i) ==
    /\ k[i].type # "user"
    /\ HasContent(k[i])
    /\ (i = 1 \/ k[i - 1].type = "user")

Runs(k) == {i \in 1..Len(k) : RunStart(k, i)}

\* the texts of the run that begins at k[i], joined by a blank line
RECURSIVE JoinedFrom(_, _)
JoinedFrom(k, i) ==
    IF i < Len(k) /\ k[i + 1].type # "user"
    THEN Trim(k[i].text) \o <<NL, NL>> \o JoinedFrom(k, i + 1)
    ELSE Trim(k[i].text)

\* the index of the message that k[i] gives
MessageOf(k, i) == Cardinality({j \in 1..i : k[j].type = "user" \/ RunStart(k, j)})

AssistantMessages ==
    {i \in 1..Len(output.value) : output.value[i].role = "assistant"}

NoAdjacentAssistants ==
    \A i \in 1..Len(output.value) - 1 :
        ~(output.value[i].role = "assistant" /\ output.value[i + 1].role = "assistant")

\* C13 as claimed: the runs of assistant bubbles are delimited by every user
\* bubble, and each run gives exactly one assistant message.
OneMessagePerRunBetweenUserBubbles ==
    output.done =>
        /\ Cardinality(AssistantMessages) = Cardinality(Runs(WithContentOrUser))
        /\ NoAdjacentAssistants

\* C13 (consecutive-assistant merge), amended: every maximal run of
\* content-bearing assistant bubbles with no content-bearing user bubble
\* between them gives exactly one assistant message, the texts joined by a
\* blank line, and no two assistant messages are adjacent.
OneMessagePerRun ==
    output.done =>
        /\ Cardinality(AssistantMessages) = Cardinality(Runs(WithContent))
        /\ Len(output.value) =
               Cardinality({i \in 1..Len(WithContent) :
                               WithContent[i].type = "user" \/ RunStart(WithContent, i)})
        /\ \A i \in Runs(WithContent) :
              /\ output.value[MessageOf(WithContent, i)].role = "assistant"
              /\ output.value[MessageOf(WithContent, i)].content = JoinedFrom(WithContent, i)
        /\ NoAdjacentAssistants

\* three assistant bubbles, the second without content, gave one message
OneMessagePerRunWitness ==
    /\ output.done
    /\ Len(input) = 3
    /\ \A i \in 1..3 : input[i].type = "assistant"
    /\ Len(WithContent) = 2
    /\ Len(output.value) = 1
    /\ \E i \in 1..Len(output.value[1].content) - 1 :
          output.value[1].content[i] = NL /\ output.value[1].content[i + 1] = NL


----------------------------------------------------------------------------
\* ClaudeParser.parseSession applied on its own

MaxEvents == 2

EventTexts ==
    {<<>>, <<" ">>, <<"a">>,
     <<IdeOpen, "a", IdeClose>>,
     <<IdeOpen, IdeClose, " ", "a">>,
     <<IdeOpen, "a">>,
     <<IdeOpen, "a", IdeClose, NL, IdeOpen, IdeClose>>,
     <<CmdOpen, "/", "a", CmdClose>>,
     <<OutOpen, OutClose>>}

Events ==
    [type : {"user", "assistant"}, text : EventTexts, createdAt : {2000},
     error : BOOLEAN, tools : {FALSE}]
    \cup [type : {"user", "assistant"}, text : {<<>>}, createdAt : {2000},
          error : {FALSE}, tools : {TRUE}]
    \cup [type : {"summary", "system"}, text : {<<"a">>}, createdAt : {2000},
          error : {FALSE}, tools : {FALSE}]

EventLogs == UNION {[1..n -> Events] : n \in 0..MaxEvents}

InitClaude ==
    /\ AtRest
    /\ input \in [createdAt : {1000}, recs : EventLogs]
    /\ output = Pending

\* parseSession returns null for a log without messages
ApplyParseSession ==
    /\ output = Pending
    /\ output' = [done |-> TRUE,
                  value |-> IF ClaudeMessages(input, input.createdAt) = <<>> THEN <<>>
                            ELSE <<parseSession("k", input, now)>>]
    /\ UNCHANGED <<service, input>>

NextClaude == ApplyParseSession

SpecClaude == InitClaude /\ [][NextClaude]_vars

\* the text is <ide_...>...</ide_...> blocks (an open tag up to the next
\* close tag) and whitespace only
RECURSIVE OnlyIdeBlocks(_)
OnlyIdeBlocks(text) ==
    IF text = <<>> THEN TRUE
    ELSE IF IsSpace(text[1]) THEN OnlyIdeBlocks(Tail(text))
    ELSE IF text[1] = IdeOpen /\ FirstAt(text, IdeClose, 2) # 0
    THEN OnlyIdeBlocks(SubSeq(text, FirstAt(text, IdeClose, 2) + 1, Len(text)))
    ELSE FALSE

IsNoise(event) ==
    /\ event.type = "user"
    /\ IdeOpen \in Listing(event.text)
    /\ OnlyIdeBlocks(event.text)

\* text without any tag that is not blank
IsPlain(event) ==
    /\ event.type \in {"user", "assistant"}
    /\ Trim(event.text) # <<>>
    /\ Listing(event.text) \cap {IdeOpen, IdeClose, CmdOpen, CmdClose, OutOpen, OutClose} = {}

SessionMessages == IF output.value = <<>> THEN <<>> ELSE output.value[1].messages

\* C14 (noise stripping): parseMessage returns no message for a user event
\* made of <ide_...> blocks and whitespace only and never a message with
\* empty content; parseSession does not count such an event: a log of plain
\* and such events gives exactly one message per plain event.
NoiseDropped ==
    output.done =>
        /\ \A e \in Listing(input.recs) :
              /\ IsNoise(e) => parseMessage(e, input.createdAt) = <<>>
              /\ parseMessage(e, input.createdAt) # <<>>
                    => parseMessage(e, input.createdAt)[1].content # <<>>
        /\ \A i \in 1..Len(SessionMessages) : SessionMessages[i].content # <<>>
        /\ Len(SessionMessages)
              <= Cardinality({i \in 1..Len(input.recs) : ~IsNoise(input.recs[i])})
        /\ ((\A e \in Listing(input.recs) : IsNoise(e) \/ IsPlain(e))
               => Len(SessionMessages)
                     = Cardinality({i \in 1..Len(input.recs) : IsPlain(input.recs[i])}))

\* a log of one <ide_...>-only user event and one plain user event gave a
\* session of one message
NoiseDroppedWitness ==
    /\ output.done
    /\ Len(input.recs) = 2
    /\ IsNoise(input.recs[1])
    /\ IsPlain(input.recs[2]) /\ input.recs[2].type = "user"
    /\ Len(SessionMessages) = 1
    /\ SessionMessages[1].content = <<"a">>


----------------------------------------------------------------------------
\* The manual save command (saveHistoryCommand, saveSessionsToWaylog)

\* path.normalize(p).toLowerCase().replace(/[\\/]+$/, '')
RECURSIVE StripTrailingSeparators(_)
StripTrailingSeparators(p) ==
    IF p # <<>> /\ p[Len(p)] \in {SL, BS}
    THEN StripTrailingSeparators(SubSeq(p, 1, Len(p) - 1))
    ELSE p

ManualNormalizePath(p) == StripTrailingSeparators(MapSeq(PathNormalize(p), Lower))

\* saveHistoryCommand, step 2: the workspace of the open folder
ManualMatch(workspaces, currentWorkspace) ==
    LET normalizedCurrent == ManualNormalizePath(currentWorkspace)
        exact == SelectSeq(workspaces,
                     LAMBDA ws : ManualNormalizePath(ws.path) = normalizedCurrent)
        currentBasename == Basename(normalizedCurrent)
        candidates == SelectSeq(workspaces,
                          LAMBDA ws : Basename(ManualNormalizePath(ws.path)) = currentBasename)
    IN  IF exact # <<>> THEN <<exact[1]>>
        ELSE IF candidates # <<>>
        THEN <<SortDesc(candidates, LAMBDA ws : ws.lastModified)[1]>>
        ELSE <<>>

MsgDate(ts) == "d" \o ToString(ts \div 1000)

\* the block saveSessionsToWaylog appends for a message
ManualBlock(msg) ==
    <<NL>>
        \o (IF msg.role = "user"
            THEN <<"_**User (", IF msg.timestamp # 0 THEN MsgDate(msg.timestamp) ELSE "",
                   ")**_">>
            ELSE <<"_**Assistant (model: default, mode: Chat)**_">>)
        \o <<NL, NL>> \o msg.content \o <<NL>> \o Separator

RECURSIVE ManualBlocks(_)
ManualBlocks(messages) ==
    IF messages = <<>> THEN <<>>
    ELSE IF Len(messages) = 1 THEN ManualBlock(messages[1])
    ELSE ManualBlock(messages[1]) \o <<NL>> \o ManualBlocks(Tail(messages))

\* one pass of the loop of saveSessionsToWaylog
SaveSession(session, fs, reader, dbPath, fetched, time) ==
    LET messages == IF session.messages = <<>> /\ HasFetch(reader)
                    THEN IF fetched
                         THEN fetchSessionContent(session.id, InWorkspace(store, dbPath), time)
                         ELSE <<>>
                    ELSE session.messages
        loaded == [session EXCEPT !.messages = messages]
        filename == generateFilename(loaded)
    IN  IF messages = <<>> THEN fs
        ELSE IF filename \in DOMAIN fs
        THEN LET fileMessageCount == getFileMessageCount(fs[filename])
             IN  IF Len(messages) > fileMessageCount
                 THEN Put(fs, filename,
                          fs[filename]
                              \o ManualBlocks(SubSeq(messages, fileMessageCount + 1,
                                                     Len(messages))))
                 ELSE fs
        ELSE Put(fs, filename, formatSessionMarkdown(loaded, time))

RECURSIVE SaveSessions(_, _, _, _, _, _)
SaveSessions(sessions, fs, reader, dbPath, fetched, time) ==
    IF sessions = <<>> THEN fs
    ELSE SaveSessions(Tail(sessions),
                      SaveSession(Head(sessions), fs, reader, dbPath, fetched, time),
                      reader, dbPath, fetched, time)

\* the user runs the command, picks a source and some of its chats
ManualSave ==
    /\ \E reader \in {Registry[i] : i \in 1..Len(Registry)}, fetched \in BOOLEAN :
          LET matchedWorkspace ==
                  ManualMatch(getWorkspaces(reader, store, now), WorkspaceRoot)
          IN  /\ matchedWorkspace # <<>>
              /\ LET dbPath == matchedWorkspace[1].id
                     sessions == getSessions(reader, InWorkspace(store, dbPath), now)
                 IN  \E picked \in SUBSET (1..Len(sessions)) \ {{}} :
                        files' = SaveSessions(
                                     SelectSeq(sessions,
                                         LAMBDA s : \E i \in picked : sessions[i] = s),
                                     files, reader, dbPath, fetched, now)
    /\ UNCHANGED <<now, syncInterval, nextFire, store, syncState, tick, edits, last,
                   touched, quiet, overlapped, input, output,
                   timers, stops, autoSave>>

\* the exploration takes the command between background runs; the command
\* itself is one step, so its effect on a state does not depend on this
ManualSaveBetweenRuns ==
    /\ \A t \in TickIds : ~InFlight(t)
    /\ ManualSave

\* the command, the run made at start and the source applications' own
\* changes; the interval timer stays out of the exploration, so the run is
\* the only one
NextManual ==
    \/ Start
    \/ SourceGrow
    \/ SourceTruncate
    \/ \E t \in TickIds : Step(t)
    \/ ManualSaveBetweenRuns

SpecManual == Init /\ [][NextManual]_vars

\* the name is one path segment: joined to the history directory it stays
\* inside it
InsideHistory(filename) ==
    /\ \A i \in 1..Len(filename) : filename[i] \notin {SL, BS}
    /\ filename \notin {Dot, DotDot}

\* C15 (read-only sources): a step of a background run or of the manual save
\* leaves every source's storage as it is; every file written lies in the
\* history directory, and besides files only the sync-state keys change.
ReadOnlySources ==
    /\ [](\A f \in DOMAIN files : InsideHistory(f))
    /\ [][(files' # files \/ tick' # tick \/ syncState' # syncState) => store' = store]_vars
    /\ [][store' # store =>
             /\ edits' = edits + 1
             /\ files' = files /\ syncState' = syncState /\ tick' = tick]_vars

\* a session whose title holds path separators was saved, by a run and by
\* the command
ReadOnlySourcesWitness ==
    /\ \E a \in touched : a[1] = "t1" /\ a[2] \in DOMAIN files
    /\ \E f \in DOMAIN files :
          \E i \in 1..Len(files[f]) :
             files[f][i] \in {"_**User (", "_**Assistant (model: default, mode: Chat)**_"}
    /\ syncState["t1"] # 0


----------------------------------------------------------------------------
\* SyncManager.getAvailableProviders: every reader is probed at once, each
\* probe raced against a timer

PROBE_TIMEOUT_MS == 5000

\* what a reader's isAvailable() does: whether its promise settles at all,
\* when, and with what
Probes == [settles : BOOLEAN, delay : {1000, 6000}, outcome : {"true", "false", "throws"}]

Readers == {Registry[i] : i \in 1..Len(Registry)}

ProbePending ==
    [done |-> FALSE, value |-> <<>>, returnedAt |-> 0,
     checks |-> [r \in Readers |-> "racing"], at |-> [r \in Readers |-> 0]]

InitProbe ==
    /\ AtRest
    /\ input \in [Readers -> Probes]
    /\ output = ProbePending

\* a timed-out probe counts as an available reader
SettledTimeoutAvailable(reader, raced) ==
    IF raced \in {"true", "timeout"} THEN reader ELSE "null"

\* the value of one check: the reader when the race resolved to true, null
\* when it resolved to false (the probe's answer or the timer's) or rejected
Settled(reader, raced) ==
    IF raced = "true" THEN reader ELSE "null"

\* reader.isAvailable() settles before the timer
ProbeSettles(r) ==
    /\ output.checks[r] = "racing"
    /\ input[r].settles
    /\ now = input[r].delay
    /\ output' = [output EXCEPT !.checks[r] = Settled(r, input[r].outcome),
                                !.at[r] = now]
    /\ UNCHANGED <<now, syncInterval, nextFire, store, files, syncState, tick, edits,
                   last, touched, quiet, overlapped, input,
                   timers, stops, autoSave>>

\* setTimeout(() => resolve(false), 5000) fires first
ProbeTimeout(r) ==
    /\ output.checks[r] = "racing"
    /\ now = PROBE_TIMEOUT_MS
    /\ output' = [output EXCEPT !.checks[r] = Settled(r, "timeout"), !.at[r] = now]
    /\ UNCHANGED <<now, syncInterval, nextFire, store, files, syncState, tick, edits,
                   last, touched, quiet, overlapped, input,
                   timers, stops, autoSave>>

\* the moments at which something is due for a check still racing
ProbeEvents ==
    {PROBE_TIMEOUT_MS}
        \cup {input[r].delay : r \in {q \in Readers : input[q].settles}}

\* nothing is due: the clock moves to the next moment something is
ProbeWait ==
    /\ \E r \in Readers : output.checks[r] = "racing"
    /\ \A r \in Readers :
          output.checks[r] = "racing" =>
              /\ ~(input[r].settles /\ now = input[r].delay)
              /\ now # PROBE_TIMEOUT_MS
    /\ \E t \in ProbeEvents :
          /\ t > now
          /\ \A u \in ProbeEvents : u > now => t <= u
          /\ now' = t
    /\ UNCHANGED <<syncInterval, nextFire, store, files, syncState, tick, edits,
                   last, touched, quiet, overlapped, input, output,
                   timers, stops, autoSave>>

\* Promise.all(checks) resolves; results.filter(r => r !== null)
ProbeReturn ==
    /\ ~output.done
    /\ \A r \in Readers : output.checks[r] # "racing"
    /\ output' = [output EXCEPT
                     !.done = TRUE,
                     !.returnedAt = now,
                     !.value = SelectSeq(Registry, LAMBDA r : output.checks[r] # "null")]
    /\ UNCHANGED <<now, syncInterval, nextFire, store, files, syncState, tick, edits,
                   last, touched, quiet, overlapped, input,
                   timers, stops, autoSave>>

NextProbe ==
    \/ \E r \in Readers : ProbeSettles(r)
    \/ \E r \in Readers : ProbeTimeout(r)
    \/ ProbeWait
    \/ ProbeReturn

\* timers fire and continuations run: the event loop does not stop while
\* something is due
SpecProbe == InitProbe /\ [][NextProbe]_vars /\ WF_vars(NextProbe)

\* the reader's own probe says it is available, in time
Answers(r) ==
    /\ input[r].settles
    /\ input[r].delay < PROBE_TIMEOUT_MS
    /\ input[r].outcome = "true"

Hangs(r) == ~input[r].settles

Throws(r) ==
    /\ input[r].settles
    /\ input[r].delay < PROBE_TIMEOUT_MS
    /\ input[r].outcome = "throws"

\* C16 (bounded availability probing): the call completes; it returns, in
\* registry order, exactly the readers whose own probe answered true before
\* the timeout, so a reader that hangs or throws is left out and removes no
\* other; every check settles when its own probe does or at the 5 s timeout,
\* whatever the other probes do, and the call returns by then.
BoundedProbing ==
    /\ <>output.done
    /\ [](output.done =>
            /\ output.value = SelectSeq(Registry, Answers)
            /\ output.returnedAt <= PROBE_TIMEOUT_MS
            /\ \A r \in Readers :
                  output.at[r] = IF input[r].settles /\ input[r].delay < PROBE_TIMEOUT_MS
                                 THEN input[r].delay
                                 ELSE PROBE_TIMEOUT_MS)

\* one reader hangs, one throws, and the third is returned
BoundedProbingWitness ==
    /\ output.done
    /\ \E r \in Readers : Hangs(r)
    /\ \E r \in Readers : Throws(r)
    /\ Len(output.value) = 1


----------------------------------------------------------------------------
\* Failures during a sync run

InSession(rec) == rec.pc \in {"ensure", "find", "create", "count", "append"}

\* syncSession without its try/catch: the error reaches the catch of
\* processProviderSessions, which leaves the reader
SessionFailsUncaught(t) ==
    /\ tick[t].pc \in {"ensure", "create", "append"}
    /\ tick' = [tick EXCEPT ![t] = [@ EXCEPT !.pc = "reader", !.readers = Tail(@),
                                             !.sessions = <<>>, !.cur = NoSession,
                                             !.target = <<>>, !.count = 0,
                                             !.dbPath = ""]]
    /\ quiet' = 0
    /\ UNCHANGED <<now, syncInterval, nextFire, store, files, syncState, edits, last,
                   touched, overlapped, input, output,
                   timers, stops, autoSave>>

\* an await of syncSession throws: its catch returns 'skipped'.  The lazy
\* load, the write and the append can throw; findExistingFile and
\* getFileMessageCount catch their own errors
SessionFails(t) ==
    /\ tick[t].pc \in {"ensure", "create", "append"}
    /\ Outcome(t, "skipped", <<>>, 0)
    /\ quiet' = 0
    /\ UNCHANGED <<now, syncInterval, nextFire, store, files, edits, overlapped,
                   input, output,
                   timers, stops, autoSave>>

\* getWorkspaces, findBestMatch or getSessions throws: the catch of
\* processProviderSessions, which returns to the loop over the readers
ReaderFails(t) ==
    /\ tick[t].pc = "reader"
    /\ tick[t].readers # <<>>
    /\ tick' = [tick EXCEPT ![t].readers = Tail(@)]
    /\ quiet' = 0
    /\ UNCHANGED <<now, syncInterval, nextFire, store, files, syncState, edits, last,
                   touched, overlapped, input, output,
                   timers, stops, autoSave>>

NextFail ==
    \/ Start
    \/ TimerFire
    \/ Elapse
    \/ SourceGrow
    \/ \E t \in TickIds : Step(t)
    \/ \E t \in TickIds : SessionFails(t)
    \/ \E t \in TickIds : ReaderFails(t)

\* the store in which one reader lists two sessions
InitFail ==
    /\ Init
    /\ "c1" \in DOMAIN store

SpecFail == InitFail /\ [][NextFail]_vars

\* the run went from a to b by leaving a's current session for the next one
\* of the same reader, or for the next reader when it was the last
Proceeds(a, b) ==
    IF a.sessions # <<>>
    THEN /\ InSession(b)
         /\ b.cur.id = Head(a.sessions).id
         /\ b.sessions = Tail(a.sessions)
         /\ b.readers = a.readers
    ELSE /\ b.pc = "reader"
         /\ b.readers = Tail(a.readers)

\* C17 (failure isolation): a failure inside one session gives that session
\* the outcome 'skipped', writes nothing, and the run goes on with the
\* reader's remaining sessions; a failure of a reader drops that reader only;
\* readers leave the run one at a time and only with no session of theirs
\* left, and the run ends only when every reader has had its turn.
FailureIsolation ==
    [][\A t \in TickIds :
          LET a == tick[t]
              b == tick'[t]
          IN  /\ SessionFails(t) =>
                    /\ last'.id = a.cur.id
                    /\ last'.result = "skipped"
                    /\ files' = files
                    /\ Proceeds(a, b)
              /\ ReaderFails(t) =>
                    /\ b.pc = "reader"
                    /\ b.readers = Tail(a.readers)
                    /\ files' = files
              /\ (InSession(a) /\ b.cur.id # a.cur.id) => Proceeds(a, b)
              /\ (a.pc \notin {"idle", "prepare"} /\ b.readers # a.readers) =>
                    /\ a.readers # <<>>
                    /\ b.readers = Tail(a.readers)
                    /\ a.sessions = <<>>
              /\ (a.pc # "idle" /\ b.pc = "idle") =>
                    /\ a.pc = "reader"
                    /\ a.readers = <<>>]_vars

\* a session failed and was marked, and the next session of the same reader
\* was written in the same run
FailureIsolationWitness ==
    /\ last.result = "created"
    /\ last.id = "c1"
    /\ syncState["c2"] # 0
    /\ \A a \in touched : a[1] # "c2"
    /\ \E t \in TickIds : InFlight(t)

----------------------------------------------------------------------------
\* generateFilename applied to a session

MaxMessages == 2

\* 51 characters, the 50th a punctuation mark
LongText == [i \in 1..(TitleLimit + 1) |-> IF i = TitleLimit THEN "!" ELSE "a"]

NameTexts == {<<"?", "?">>, <<"A", " ", "b">>, <<" ", "A", "!", "!", "b", "_">>, LongText}

NameMessages == [role : {"user", "assistant"}, content : NameTexts, timestamp : {1000}]

NameMessageLists ==
    UNION {[1..n -> NameMessages] : n \in 0..MaxMessages}

NameSessions ==
    [id : {"k1"}, title : NameTexts, timestamp : {59000, 61000}, lastUpdatedAt : {61000},
     messages : NameMessageLists, source : {"Claude", "Cursor", "Copilot Chat"}]

InitName ==
    /\ AtRest
    /\ input \in NameSessions
    /\ output = Pending

ApplyGenerateFilename ==
    /\ output = Pending
    /\ output' = [done |-> TRUE, value |-> generateFilename(input)]
    /\ UNCHANGED <<service, input>>

NextName == ApplyGenerateFilename

SpecName == InitName /\ [][NextName]_vars

\* lower case, one hyphen for each run of other characters
RECURSIVE RunsToHyphens(_, _)
RunsToHyphens(t, i) ==
    IF i > Len(t) THEN <<>>
    ELSE IF IsLetterOrDigit(t[i]) THEN <<Lower(t[i])>> \o RunsToHyphens(t, i + 1)
    ELSE IF i > 1 /\ ~IsLetterOrDigit(t[i - 1]) THEN RunsToHyphens(t, i + 1)
    ELSE <<HY>> \o RunsToHyphens(t, i + 1)

\* the slug as the format describes it
StatedSlug(text) ==
    LET r == RunsToHyphens(SubSeq(text, 1, Min(TitleLimit, Len(text))), 1)
        a == IF r # <<>> /\ r[1] = HY THEN Tail(r) ELSE r
    IN  IF a # <<>> /\ a[Len(a)] = HY THEN SubSeq(a, 1, Len(a) - 1) ELSE a

\* the title as the format describes it
StatedTitle(title) ==
    [i \in 1..Min(TitleLimit, Len(title)) |->
        IF title[i] \in Letters \cup {"_"} THEN title[i] ELSE "_"]

UserMessages(session) == SelectSeq(session.messages, LAMBDA m : m.role = "user")

StatedName(session, slug) ==
    IF session.source = "Claude"
    THEN <<SecondStamp(session.timestamp), "Z", HY, "claude", HY>> \o slug \o <<".md">>
    ELSE <<MinuteStamp(session.timestamp), "Z", HY>>
             \o StatedTitle(session.title) \o <<".md">>

\* C18 as stated: the Claude slug is the cleaned first user message, or the
\* session id without one
FilenameFormatNoFallback ==
    output.done =>
        output.value =
            StatedName(input,
                IF UserMessages(input) # <<>>
                THEN StatedSlug(UserMessages(input)[1].content)
                ELSE <<input.id>>)

\* C18 (filename format): a Claude session is named
\* <date>_<HH-MM-SS>Z-claude-<slug>.md, the slug being the first 50 characters
\* of the first user message in lower case with each run of other characters
\* as one hyphen and no outer hyphen, 'new-chat' when that leaves nothing, the
\* session id without a user message; any other session is named
\* <date>_<HH-MM>Z-<title>.md, the title cut to 50 characters with each
\* character outside letters, digits and '_' replaced by '_'.
FilenameFormat ==
    output.done =>
        output.value =
            StatedName(input,
                IF UserMessages(input) = <<>> THEN <<input.id>>
                ELSE IF StatedSlug(UserMessages(input)[1].content) = <<>>
                THEN <<"new", HY, "chat">>
                ELSE StatedSlug(UserMessages(input)[1].content))

\* a Claude session whose first user message is punctuation only, after an
\* assistant message
FilenameFormatWitness ==
    /\ output.done
    /\ input.source = "Claude"
    /\ Len(input.messages) = 2
    /\ input.messages[1].role = "assistant"
    /\ input.messages[2].role = "user"
    /\ input.messages[2].content = <<"?", "?">>
    /\ output.value = <<SecondStamp(input.timestamp), "Z", HY, "claude", HY,
                        "new", HY, "chat", ".md">>


----------------------------------------------------------------------------
\* A session rendered, and the messages counted back from the text

\* contents: plain; a horizontal rule between two lines; a rule alone; a
\* rule as last line
FrameTexts == {<<"a">>, SeparatorText, <<HY, HY, HY>>, <<"a", NL, HY, HY, HY>>}

FrameMessages == [role : {"user", "assistant"}, content : FrameTexts, timestamp : {1000}]

FrameSessions ==
    [id : {"c1"}, title : {<<"a">>, SeparatorText}, timestamp : {1000},
     lastUpdatedAt : {1000},
     messages : UNION {[1..n -> FrameMessages] : n \in 1..MaxMessages},
     source : {"Cursor"}]

InitFrame ==
    /\ AtRest
    /\ input \in FrameSessions
    /\ output = Pending

\* getFileMessageCount of the file createNewFile writes, and of the text
\* appendNewMessages appends
ApplyRenderAndCount ==
    /\ output = Pending
    /\ output' = [done |-> TRUE,
                  value |-> [session |-> getFileMessageCount(
                                             formatSessionMarkdown(input, now)),
                             messages |-> getFileMessageCount(
                                              formatMessages(input.messages,
                                                             input.source))]]
    /\ UNCHANGED <<service, input>>

NextFrame == ApplyRenderAndCount

SpecFrame == InitFrame /\ [][NextFrame]_vars

\* C19 (separator framing round trip): the separators counted in the rendered
\* session, and in the rendered messages, are as many as the messages,
\* whatever the title and the contents.
SeparatorRoundTrip ==
    output.done =>
        /\ output.value.session = Len(input.messages)
        /\ output.value.messages = Len(input.messages)


----------------------------------------------------------------------------
\* The scheduler

\* the runs a step launches
Launched == {t \in TickIds : ~InFlight(t) /\ tick'[t].pc # "idle"}

IsSuffix(a, b) == Len(a) <= Len(b) /\ SubSeq(b, Len(b) - Len(a) + 1, Len(b)) = a

\* within a run the readers are taken in registry order, and every session in
\* hand belongs to the reader in turn
OneReaderAtATime ==
    \A t \in TickIds :
        LET a == tick[t]
        IN  /\ IsSuffix(a.readers, Registry)
            /\ (InSession(a) \/ a.sessions # <<>>) =>
                  /\ a.readers # <<>>
                  /\ a.cur.source = Head(a.readers)
                  /\ \A i \in 1..Len(a.sessions) : a.sessions[i].source = Head(a.readers)

\* C20 (scheduler cadence): start() on a stopped service launches one run at
\* once and arms the timer for 60 s later; every firing of the timer launches
\* one run and sets the next firing 60 s later, and runs are launched in no
\* other way; within a run the readers are processed one after another in
\* registry order, the next one only once the last session of the one before
\* has been synced or skipped.
SchedulerCadence ==
    /\ [](OneReaderAtATime)
    /\ [][/\ (syncInterval = "null" /\ syncInterval' = "armed") =>
                /\ Cardinality(Launched) = 1
                /\ nextFire' = now + SYNC_INTERVAL_MS
          /\ (nextFire' # nextFire /\ syncInterval = "armed") =>
                /\ now >= nextFire
                /\ Cardinality(Launched) = 1
                /\ nextFire' = nextFire + SYNC_INTERVAL_MS
          /\ Launched # {} =>
                \/ syncInterval = "null" /\ syncInterval' = "armed"
                \/ syncInterval = "armed" /\ nextFire' # nextFire
          /\ \A t \in TickIds :
                LET a == tick[t]
                    b == tick'[t]
                IN  /\ (a.pc = "prepare" /\ b # a) => (b.pc = "reader" /\ b.readers = Registry)
                    /\ (a.pc \notin {"idle", "prepare"} /\ b.readers # a.readers) =>
                          /\ b.readers = Tail(a.readers)
                          /\ a.sessions = <<>>
                          /\ InSession(a) =>
                                /\ last'.id = a.cur.id
                                /\ last'.result \in {"created", "updated", "skipped"}]_vars

\* the run launched by the timer's first firing is at a session of the second
\* reader
SchedulerCadenceWitness ==
    /\ syncInterval = "armed"
    /\ nextFire = 10000 + 2 * SYNC_INTERVAL_MS
    /\ \E t \in TickIds :
          /\ InSession(tick[t])
          /\ tick[t].readers = Tail(Registry)


----------------------------------------------------------------------------
\* parseBubbles at a user bubble

\* the messages of the bubbles before the i-th in createdAt order, followed
\* by the messages of the i-th and later ones
CutAt(i) ==
    parseBubbles(SubSeq(InOrder, 1, i - 1), now)
        \o parseBubbles(SubSeq(InOrder, i, Len(InOrder)), now)

\* C21 as claimed: every user bubble, with or without text, ends the pending
\* assistant run, so the messages fall apart at every user bubble.
EveryUserBubbleFlushes ==
    output.done =>
        \A i \in 1..Len(InOrder) :
            InOrder[i].type = "user" => output.value = CutAt(i)

\* C21 (user flush), amended: every user bubble that carries text ends the
\* pending assistant run: the messages are those of the bubbles before it
\* followed by those of the bubbles from it on, so no assistant message holds
\* text from both sides of it.
UserBubbleFlushes ==
    output.done =>
        \A i \in 1..Len(InOrder) :
            (InOrder[i].type = "user" /\ HasContent(InOrder[i])) =>
                /\ output.value = CutAt(i)
                /\ output.value[Len(parseBubbles(SubSeq(InOrder, 1, i - 1), now)) + 1].role
                       = "user"

\* an assistant bubble, a user bubble with text, an assistant bubble: three
\* messages
UserBubbleFlushesWitness ==
    /\ output.done
    /\ Len(InOrder) = 3
    /\ InOrder[1].type = "assistant"
    /\ InOrder[2].type = "user"
    /\ InOrder[3].type = "assistant"
    /\ \A i \in 1..3 : HasContent(InOrder[i])
    /\ Len(output.value) = 3
    /\ output.value[2].role = "user"


----------------------------------------------------------------------------
\* parseMessage and events that carry an error

\* C22 (error signal survives stripping): a user or assistant event with an
\* error always gives a message, and when its text is empty, or empty once
\* the <ide_...> blocks are removed, the content of that message is the
\* synthesized error text.
ErrorSurvivesStripping ==
    output.done =>
        \A e \in Listing(input.recs) :
            (e.type \in {"user", "assistant"} /\ e.error) =>
                /\ parseMessage(e, input.createdAt) # <<>>
                /\ Trim(StripIde(e.text)) = <<>> =>
                      parseMessage(e, input.createdAt)[1].content = <<"Error">>


----------------------------------------------------------------------------
\* findBestMatch and paths that differ in form only

\* a path in lower case, with forward slashes, without trailing separators
StatedNormalForm(p) ==
    MapSeq(StripTrailingSeparators(p), LAMBDA c : IF c = BS THEN SL ELSE Lower(c))

\* C23 (path normalization): a descriptor whose path differs from the project
\* root only in letter case, separator style or trailing separators is an
\* exact match: with no workspace file, findBestMatch returns such a
\* descriptor whenever there is one, whatever the lastModified of the others.
SameFolderIsExactMatch ==
    (output.done /\ input.workspaceFile = <<>>) =>
        ((\E ws \in Listing(input.workspaces) :
             StatedNormalForm(ws.path) = StatedNormalForm(input.root))
            => /\ output.value # <<>>
               /\ StatedNormalForm(output.value[1].path) = StatedNormalForm(input.root))


----------------------------------------------------------------------------
\* The process is killed and the extension activated again

\* what the kill leaves: the files and the stored keys; no run, no timer.
\* The window is opened again an interval later.
Killed ==
    /\ now < MaxIntervals * SYNC_INTERVAL_MS
    /\ now' = now + SYNC_INTERVAL_MS
    /\ tick' = [t \in TickIds |-> Idle]
    /\ syncInterval' = "null"
    /\ nextFire' = 0
    /\ quiet' = 0
    /\ timers' = 0
    /\ UNCHANGED <<store, syncState, edits, last, touched, overlapped, input, output,
                   stops, autoSave>>

\* killed between two steps of a run
Kill ==
    /\ \E t \in TickIds : InFlight(t)
    /\ Killed
    /\ UNCHANGED files

\* killed inside fs.writeFile or fs.appendFile: the file holds the text
\* written so far
KillInWrite ==
    /\ \E t \in TickIds :
          \/ /\ tick[t].pc = "create"
             /\ LET filename == generateFilename(tick[t].cur)
                    content == formatSessionMarkdown(tick[t].cur, now)
                IN  \E k \in {0, Len(content) \div 2} :
                       files' = Put(files, filename, SubSeq(content, 1, k))
          \/ /\ tick[t].pc = "append"
             /\ tick[t].target \in DOMAIN files
             /\ LET session == tick[t].cur
                    newContent == <<NL>> \o formatMessages(
                                      SubSeq(session.messages, tick[t].count + 1,
                                             Len(session.messages)),
                                      session.source)
                IN  files' = Put(files, tick[t].target,
                                 files[tick[t].target]
                                     \o SubSeq(newContent, 1, Len(newContent) \div 2))
    /\ Killed

NextCrash ==
    \/ Start
    \/ TimerFire
    \/ Elapse
    \/ \E t \in TickIds : Step(t)
    \/ Kill
    \/ KillInWrite

SpecCrash == Init /\ [][NextCrash]_vars

\* the sessions a run exports from a reader, with their content loaded
Exported(reader) ==
    LET currentWorkspace ==
            findBestMatch(getWorkspaces(reader, store, now), WorkspaceRoot, WorkspaceFile)
    IN  IF currentWorkspace = <<>> THEN {}
        ELSE LET st == InWorkspace(store, currentWorkspace[1].id)
                 sessions == getSessions(reader, st, now)
             IN  {[sessions[i] EXCEPT !.messages =
                      IF sessions[i].messages = <<>> /\ HasFetch(reader)
                      THEN fetchSessionContent(sessions[i].id, st, now)
                      ELSE sessions[i].messages] : i \in 1..Len(sessions)}

\* the text is the session rendered at some time
RenderingOf(text, session) ==
    LET whole == formatSessionMarkdown(session, now)
        date == Len(session.title) + 4
    IN  /\ Len(text) = Len(whole)
        /\ \A i \in 1..Len(whole) : i # date => text[i] = whole[i]

\* a run launched after the last kill or change of a source has ended
Recovered ==
    /\ \A t \in TickIds : ~InFlight(t)
    /\ quiet >= 1

\* C24 (crash recovery): once a full run has followed a kill, every session
\* with messages has its artifact, with as many blocks as messages and the
\* text an uninterrupted run writes.
CrashRecovery ==
    Recovered =>
        \A reader \in Readers : \A session \in Exported(reader) :
            session.messages # <<>> =>
                /\ generateFilename(session) \in DOMAIN files
                /\ getFileMessageCount(files[generateFilename(session)])
                       = Len(session.messages)
                /\ RenderingOf(files[generateFilename(session)], session)


----------------------------------------------------------------------------
\* Lazy loading

\* C25 (lazy-load contract): a session enters the lazy load exactly when the
\* list getSessions returned for it is empty; the load leaves either nothing
\* or what the fetch of the reader named by the session's source returns, and
\* nothing at all when that reader has no fetch; outside the load the list of
\* the session in hand never changes, and a created file is the rendering of
\* that list.
LazyLoad ==
    [][\A t \in TickIds :
          LET a == tick[t]
              b == tick'[t]
          IN  /\ (b.cur # NoSession /\ b.cur.id # a.cur.id) =>
                     (b.pc = "ensure" <=> b.cur.messages = <<>>)
              /\ a.pc = "ensure" =>
                     /\ a.cur.messages = <<>>
                     /\ b.cur.id = a.cur.id =>
                            \/ b.cur.messages = <<>>
                            \/ /\ HasFetch(a.cur.source)
                               /\ b.cur.messages = fetchSessionContent(a.cur.id,
                                      InWorkspace(store, a.dbPath), now)
              /\ (a.pc \in {"find", "create", "count", "append"} /\ b.cur.id = a.cur.id) =>
                     b.cur.messages = a.cur.messages
              /\ (a.pc = "create" /\ b # a /\ files' # files) =>
                     files'[generateFilename(a.cur)] = formatSessionMarkdown(a.cur, now)
      ]_vars

\* two composers listed without messages: one was loaded and exported, the
\* other was loaded and is about to be looked up
LazyLoadWitness ==
    /\ \E t \in TickIds :
          /\ tick[t].pc = "find"
          /\ tick[t].cur.id = "c1"
          /\ tick[t].cur.messages # <<>>
    /\ \E a \in touched : a[1] = "c2" /\ a[3] = "created"


----------------------------------------------------------------------------
\* The manual save while a background run is in flight

\* the command can be run at any moment; the run made at start is the only
\* background run
NextRace ==
    \/ Start
    \/ SourceGrow
    \/ \E t \in TickIds : Step(t)
    \/ ManualSave

SpecRace == Init /\ [][NextRace]_vars

\* C26 (single writer): while a run stands between counting the blocks of an
\* artifact and appending to it, the artifact still holds the counted blocks:
\* nobody else wrote to it.
SingleWriter ==
    \A t \in TickIds :
        (tick[t].pc = "append" /\ tick[t].target \in DOMAIN files) =>
            getFileMessageCount(files[tick[t].target]) = tick[t].count


----------------------------------------------------------------------------
\* Sources that only grow

\* the source application adds a bubble while no run is in flight
SourceGrowBetweenRuns ==
    /\ \A t \in TickIds : ~InFlight(t)
    /\ SourceGrow

\* background runs one after the other over a store with composers, whose
\* bubbles are only ever added, and only between runs
NextGrow ==
    \/ Start
    \/ TimerFire
    \/ Elapse
    \/ SourceGrowBetweenRuns
    \/ \E t \in TickIds : Step(t)

SpecGrow == InitFail /\ [][NextGrow]_vars

\* from position `from` on, the text holds the block of every message, in
\* the order of the messages
RECURSIVE HoldsBlocks(_, _, _, _)
HoldsBlocks(text, from, messages, source) ==
    \/ messages = <<>>
    \/ LET block == FormatBlock(Head(messages), source)
       IN  \E p \in from..(Len(text) - Len(block) + 1) :
              /\ SubSeq(text, p, p + Len(block) - 1) = block
              /\ HoldsBlocks(text, p + Len(block), Tail(messages), source)

\* C27 (completeness across ticks): once a run launched after the last
\* added bubble has ended, the artifact created for a composer holds, block
\* after block, the full content of every message parseBubbles yields from
\* the bubbles now present.
CompleteAcrossTicks ==
    Recovered =>
        \A session \in Exported("Cursor") :
            (\E a \in touched : a[1] = session.id /\ a[3] = "created") =>
                /\ generateFilename(session) \in DOMAIN files
                /\ HoldsBlocks(files[generateFilename(session)], 1,
                               session.messages, session.source)


----------------------------------------------------------------------------
\* start() and stop()

MaxStops == 1

\* stop(): clearInterval on the timer held, if any; deactivate() calls it
Stop ==
    \/ /\ syncInterval = "null"
       /\ UNCHANGED vars
    \/ /\ syncInterval # "null"
       /\ stops < MaxStops
       /\ stops' = stops + 1
       /\ syncInterval' = "null"
       /\ nextFire' = 0
       /\ timers' = timers - 1
       /\ UNCHANGED <<now, store, files, syncState, tick, edits, last, touched, quiet,
                      overlapped, autoSave, input, output>>

\* the window is opened, or opened again, while no run is in flight
StartBetweenRuns ==
    /\ \A t \in TickIds : ~InFlight(t)
    /\ Start

\* the chats go on after the window was closed
SourceGrowWhileStopped ==
    /\ syncInterval = "null"
    /\ stops > 0
    /\ SourceGrowBetweenRuns

\* the service is stopped at any moment and started between runs; a run
\* that was begun goes on, step after step
NextLifecycle ==
    \/ StartBetweenRuns
    \/ Stop
    \/ TimerFire
    \/ Elapse
    \/ SourceGrowWhileStopped
    \/ \E t \in TickIds : Step(t)

SpecLifecycle == InitFail /\ [][NextLifecycle]_vars

\* C28 (timer lifecycle): the runtime never holds more than one interval
\* timer of the service, and holds one exactly while the service keeps its
\* handle; a run is launched only by start() on a service without timer or
\* by the timer when it is due, so start() on an armed service launches
\* nothing and a stopped service launches nothing until it is started again;
\* stop() clears the timer and leaves the runs in flight alone, and a run
\* that steps while no timer is held goes idle only once it is through its
\* readers.
TimerLifecycle ==
    /\ [](timers <= 1 /\ (timers = 1 <=> syncInterval = "armed"))
    /\ [][Launched # {} =>
             \/ syncInterval = "null" /\ syncInterval' = "armed"
             \/ /\ syncInterval = "armed" /\ syncInterval' = "armed"
                /\ now >= nextFire
                /\ nextFire' = nextFire + SYNC_INTERVAL_MS]_vars
    /\ [][stops' # stops =>
             /\ syncInterval' = "null" /\ timers' = 0
             /\ tick' = tick /\ files' = files /\ syncState' = syncState]_vars
    /\ [][\A t \in TickIds :
             (InFlight(t) /\ tick'[t] # tick[t] /\ syncInterval = "null") =>
                 /\ syncInterval' = "null"
                 /\ tick'[t].pc # "idle" \/ tick[t].readers = <<>>]_vars

\* the service is stopped and holds no timer, and its run is in flight,
\* about to create an artifact
TimerLifecycleWitness ==
    /\ stops = 1
    /\ syncInterval = "null"
    /\ timers = 0
    /\ \E t \in TickIds : tick[t].pc = "create"


----------------------------------------------------------------------------
\* Appending and rendering anew

\* the session with its first k messages only
FirstMessages(session, k) ==
    [session EXCEPT !.messages = SubSeq(session.messages, 1, k)]

----------------------------------------------------------------------------
\* The waylog.autoSave setting

\* the user changes the setting
ToggleAutoSave ==
    /\ autoSave' = ~autoSave
    /\ UNCHANGED <<now, syncInterval, nextFire, store, files, syncState, tick, edits,
                   last, touched, quiet, overlapped, timers, stops, input, output>>

NextSwitch ==
    \/ Start
    \/ TimerFire
    \/ Elapse
    \/ SourceGrowBetweenRuns
    \/ ToggleAutoSave
    \/ \E t \in TickIds : Step(t)

SpecSwitch == InitFail /\ [][NextSwitch]_vars

\* the step is a call of syncAllExportedSessions: by start() on a service
\* without timer, or by the timer
Called ==
    \/ syncInterval = "null" /\ syncInterval' = "armed"
    \/ syncInterval = "armed" /\ nextFire' = nextFire + SYNC_INTERVAL_MS

\* C30 (auto-save switch): a call of syncAllExportedSessions made while the
\* setting is off launches no run and changes no file, sync-state key or
\* source; one made while the setting is on launches a run, whatever the
\* setting was at earlier calls and without a new start(); changing the
\* setting leaves the timer, the files and the runs in flight as they are,
\* and a run in flight steps on while the setting is off.
AutoSaveSwitch ==
    /\ [][(Called /\ ~autoSave) =>
             /\ Launched = {}
             /\ tick' = tick /\ files' = files /\ syncState' = syncState
             /\ store' = store]_vars
    /\ [][(Called /\ autoSave) => Launched # {}]_vars
    /\ [][Launched # {} => Called /\ autoSave]_vars
    /\ [][autoSave' # autoSave =>
             /\ tick' = tick /\ files' = files /\ syncState' = syncState
             /\ syncInterval' = syncInterval /\ nextFire' = nextFire
             /\ timers' = timers]_vars
    /\ [][\A t \in TickIds :
             (InFlight(t) /\ tick'[t] # tick[t] /\ ~autoSave) =>
                 tick'[t].pc # "idle" \/ tick[t].readers = <<>>]_vars

\* the setting was off when the service was started and nothing ran; it was
\* switched on, and the first firing of the timer has launched the first run
AutoSaveSwitchWitness ==
    /\ autoSave
    /\ syncInterval = "armed"
    /\ now >= SYNC_INTERVAL_MS
    /\ nextFire > now
    /\ \E t \in TickIds : InFlight(t)
    /\ last = NoOutcome
    /\ quiet = 1
    /\ edits = 0

====
